---- MODULE Spec2Model ----
(***************************************************************************)
(* Scan orchestration of the vulnscan / Oryon VS Code extension.           *)
(*                                                                         *)
(* Part 1: the bounded-concurrency task runner, pLimit of extension.ts    *)
(* and the worker pool of Uploader.uploadFindings.                         *)
(***************************************************************************)
EXTENDS Integers, Sequences, FiniteSets, TLC

\* ------------------------------------------------------------------------
\* Bounds of the model
\* ------------------------------------------------------------------------
MaxTasks == 4
MaxLimit == 3
\* A scan run covers at most MaxBatches full batches and one more file.
MaxBatches == 2
\* The candidate binaries found on disk by the candidate-list adapter.
MaxBins == 2
\* Findings handed to the enrichment phase.
MaxFindings == 3

\* ------------------------------------------------------------------------
\* Program constants
\* ------------------------------------------------------------------------
\* extension.ts (sec.scan with constants): const BATCH_SIZE = 60
FixedBatchSize == 60
\* uploader.ts: const concurrency = 8
UploadConcurrency == 8
\* const enrichConcurrency = Math.min(8, Math.max(1, cfg.get('enrich.concurrency', 3)))
MaxEnrichConcurrency == 8
\* extension.ts: const batchSize = Math.max(10, cfg.get('batchSize', 60))
MinBatchSize == 10
\* scanners/semgrep.ts (probing version): the three candidate locations
NumCandidates == 3
\* scanners/semgrep.ts (retrying version): if (configs.length > 6)
RetryThreshold == 6

Min(a, b) == IF a < b THEN a ELSE b
Max(a, b) == IF a > b THEN a ELSE b

VARIABLES
  kind,      \* which runner is called: "pLimit" | "uploadFindings" with any tasks,
             \* "enrich" (pLimit over sec.scan's enrichment closures) |
             \* "sequential" (the enrichment loop without pLimit)
  limit,     \* pLimit's limit argument
  nTasks,    \* tasks.length / findings.length
  fate,      \* per task: "ok" (its promise fulfils) | "reject" (it rejects) |
             \* "throw" (enrichFinding throws inside the task, which catches it)
  i,         \* the shared index counter `let i = 0`
  workers,   \* the worker promises, in spawn order
  tState,    \* per task: "idle" | "running" | "skipped" | "fulfilled" | "rejected"
  starts,    \* per task: how many times tasks[idx]() was called
  runAll     \* the runner's own promise: "init" | "pending" | "resolved" | "rejected"

limVars == <<kind, limit, nTasks, fate, i, workers, tState, starts, runAll>>

VARIABLES
  orch,         \* the command: "secScan" | "scanWorkspaceAndUpload" |
                \* "secScanIncremental" (sec.scan with constants, which
                \* publishes after every batch)
  adapter,      \* the runSemgrepOnFiles version: "candidates" | "probe" | "retry" | "plain"
  total,        \* targetFiles.length / files.length
  cfgBatchSize, \* the configured batchSize
  nBins,        \* candidates adapter: bins.length after the existsSync filter
  nConfigs,     \* configs.length
  explicitBin,  \* a binary is configured: opt.semgrepBin (retrying version),
                \* ORYON_SEMGREP_BIN or the semgrepBin setting (plain version)
  token,        \* token.isCancellationRequested
  cancelAt,     \* where the run was when cancellation was requested
  pc,           \* position of the command's async function
  batchI,       \* the loop variable i of the batch loop
  done,         \* let done = 0
  findingsRaw,  \* findingsRaw / results
  increments,   \* the `increment` values passed to progress.report after a batch
  published,    \* the argument of the last publishFindings call, <<0>> before it
  procs,        \* the external processes started and not yet handled
  invocations,  \* every execFile call so far: <<batch, binary, rule set>>, in order
  lastDelivered,\* the process whose callback ran last
  dispatched,   \* the slices handed to runSemgrepOnFiles, in call order
  returned,     \* the lists runSemgrepOnFiles returned, in call order
  brokeAt       \* number of batches dispatched when the loop was left by `break`, -1 otherwise

scanIn == <<orch, adapter, total, cfgBatchSize, nBins, nConfigs, explicitBin>>
scanVars == <<scanIn, token, cancelAt, pc, batchI, done, findingsRaw, increments,
              published, procs, invocations, lastDelivered, dispatched, returned,
              brokeAt>>

VARIABLES
  hasKey,       \* !!process.env.OPENAI_API_KEY
  findings,     \* the findings after the severity filter: relFile and severity rank
  reportItems,  \* const reportItems: UIItem[] = []
  report        \* the list handed to openSecurityReport, <<"none">> before it

enrVars == <<hasKey, findings, reportItems, report>>

VARIABLES
  pcPatch,    \* position in tryApplyUnifiedDiff: "idle" | "fastEdit" | "fastSave" |
              \* "edit" | "save" | "true" | "false" (the returned boolean)
  origLines,  \* the lines of the file when the call starts
  docLines,   \* the lines of the TextDocument the edits are applied to
  diskLines,  \* the lines of the file on disk
  diffLines,  \* the lines of the unified diff
  snippet,    \* "none" | "given": the snippet argument
  hunks,      \* extractHunks(diff), once computed
  hunkIdx,    \* the hunk of the for loop
  offset,     \* let offset = 0
  pending     \* the WorkspaceEdit handed to applyEdit

patchVars == <<pcPatch, origLines, docLines, diskLines, diffLines, snippet, hunks,
               hunkIdx, offset, pending>>

VARIABLES
  normVersion,  \* which fromSemgrep of normalize.ts is built: "early" | "late"
  raw1,         \* a record of semgrep's results array
  raw2,         \* a second record, NoRaw when there is none
  out1,         \* fromSemgrep(raw1), NoFinding before the call
  out2,         \* fromSemgrep(raw2)
  normDone      \* the records have been mapped

normVars == <<normVersion, raw1, raw2, out1, out2, normDone>>

VARIABLES
  postVersion,  \* which snapshot of the scan command is built
  minSeverity,  \* cfg.get('minSeverity', 'low'), "none" where it is not read
  rawResults,   \* findingsRaw / results after the batch loop
  pcPost,       \* "idle" | "loopDone" | "mapped" | "published"
  findingList,  \* const findings
  diagnostics   \* the list last given to publishFindings, <<"none">> before

postVars == <<postVersion, minSeverity, rawResults, pcPost, findingList, diagnostics>>

VARIABLES
  tree,       \* the directories under the scan root
  enumStack,  \* the calls of walk that have not returned
  enumFiles,  \* const files: string[] = []
  enumToken,  \* token.isCancellationRequested
  pcEnum      \* "idle" | "walking" | "returned"

enumVars == <<tree, enumStack, enumFiles, enumToken, pcEnum>>

VARIABLES
  liveVersion, \* "cache": the LiveScanner with a result cache; "direct": the one
               \* that publishes the scanned file's findings itself
  lastSave,    \* per file: the number of its most recent save, 0 before any
  nSaves,      \* the saves so far; each save writes the content of its number
  liveTimer,   \* the pending setTimeout callback: the file and the save that
               \* set it, or NoTimer
  liveScans,   \* the scanDocument calls awaiting runSemgrepOnFiles
  cache,       \* this.cache: per file the content its findings were computed
               \* from, 0 for no entry
  liveDiag,    \* the diagnostic collection: per file the content its published
               \* diagnostics were computed from, 0 for none
  scanned      \* per file: the saves whose scan has completed

liveVars == <<liveVersion, lastSave, nSaves, liveTimer, liveScans, cache, liveDiag,
              scanned>>

VARIABLES
  ignoredKey,   \* workspaceState 'vulnscan/ignored': an array of fingerprints
  toggles,      \* per fingerprint: the toggleIgnore messages handled for it
  nToggles,     \* the toggleIgnore messages handled in all
  panelItems,   \* the items the last report was opened with: their fingerprints
  visibleItems, \* the items that report renders
  shown,        \* the fingerprints rendered by the reports opened so far
  pcReport      \* "none" | "opened" (no toggle since the report was opened) |
                \* "toggled"

ignVars ==
  <<ignoredKey, toggles, nToggles, panelItems, visibleItems, shown, pcReport>>

VARIABLES
  authVersion,  \* which AuthManager is built: "client" | "part001"
  secrets,      \* ctx.secrets: the access, refresh and expiry entries, 0 when
                \* absent, 1 as stored by login, 2 as stored by a refresh
  getters,      \* the getAccessToken calls: position and the values read
  logoutCall    \* the logout call: position and the refresh token read

authVars == <<authVersion, secrets, getters, logoutCall>>

\* The state of the components modelled after the scan command.
restVars ==
  <<patchVars, normVars, postVars, enumVars, liveVars, ignVars, authVars>>

vars == <<limVars, scanVars, enrVars, restVars>>

TaskIds == 0 .. (nTasks - 1)

\* clearDiagnostics() and no publishFindings call yet; records are numbered
\* from 1.
NotPublished == <<0>>

\* No process has been handled yet.
NoProc == [batch |-> 0, bin |-> 0, rules |-> "none", st |-> "none",
           kill |-> "never", err |-> FALSE, out |-> "empty", res |-> "none",
           hangs |-> FALSE]

\* The scan state before the command has done anything.
ScanBlank ==
  /\ orch = "secScan"
  /\ adapter = "plain"
  /\ total = 0
  /\ cfgBatchSize = MinBatchSize
  /\ nBins = 1
  /\ nConfigs = 1
  /\ explicitBin = FALSE
  /\ token = FALSE
  /\ cancelAt = [phase |-> "never", batch |-> 0]
  /\ batchI = 0
  /\ done = 0
  /\ findingsRaw = <<>>
  /\ increments = <<>>
  /\ published = NotPublished
  /\ procs = {}
  /\ invocations = <<>>
  /\ lastDelivered = NoProc
  /\ dispatched = <<>>
  /\ returned = <<>>
  /\ brokeAt = -1

\* The scan command is not running.
ScanIdle ==
  /\ pc = "idle"
  /\ ScanBlank

\* The enrichment phase has not been reached.
EnrichIdle ==
  /\ hasKey = FALSE
  /\ findings = <<>>
  /\ reportItems = <<>>
  /\ report = <<"none">>

\* tryApplyUnifiedDiff has not been called.
PatchIdle ==
  /\ pcPatch = "idle"
  /\ origLines = <<>>
  /\ docLines = <<>>
  /\ diskLines = <<>>
  /\ diffLines = <<>>
  /\ snippet = "none"
  /\ hunks = <<>>
  /\ hunkIdx = 0
  /\ offset = 0
  /\ pending = <<>>

\* No record, no finding.
NoRaw == [path |-> <<>>, check_id |-> <<>>, start |-> <<>>, end |-> <<>>,
          hasMessage |-> FALSE, message |-> <<>>, cwe |-> <<>>,
          sevAt |-> "severity", label |-> <<>>]
NoFinding == [ok |-> FALSE]

\* fromSemgrep has not been given a record.
NormIdle ==
  /\ normVersion = "late"
  /\ raw1 = NoRaw
  /\ raw2 = NoRaw
  /\ out1 = NoFinding
  /\ out2 = NoFinding
  /\ normDone = FALSE

\* The batch loop has not handed over its results.
PostIdle ==
  /\ postVersion = "secScan"
  /\ minSeverity = "none"
  /\ rawResults = <<>>
  /\ pcPost = "idle"
  /\ findingList = <<>>
  /\ diagnostics = <<"none">>

\* enumerateFiles has not been called.
EnumIdle ==
  /\ tree = <<>>
  /\ enumStack = <<>>
  /\ enumFiles = <<>>
  /\ enumToken = FALSE
  /\ pcEnum = "idle"

\* The files the editor has open.
LiveFiles == {"A", "B"}

NoTimer == [file |-> "none", save |-> 0]

\* No LiveScanner is bound.
LiveIdle ==
  /\ liveVersion = "none"
  /\ lastSave = [f \in LiveFiles |-> 0]
  /\ nSaves = 0
  /\ liveTimer = NoTimer
  /\ liveScans = {}
  /\ cache = [f \in LiveFiles |-> 0]
  /\ liveDiag = [f \in LiveFiles |-> 0]
  /\ scanned = [f \in LiveFiles |-> {}]

\* The fingerprints of the findings a workspace has.
Fingerprints == {"fpA", "fpB", "fpC"}

\* No report has been opened and nothing is ignored.
IgnoreIdle ==
  /\ ignoredKey = <<>>
  /\ toggles = [fp \in Fingerprints |-> 0]
  /\ nToggles = 0
  /\ panelItems = <<>>
  /\ visibleItems = <<>>
  /\ shown = {}
  /\ pcReport = "none"

NoSecrets == [access |-> 0, refresh |-> 0, expires |-> 0]

\* No AuthManager has been built.
AuthIdle ==
  /\ authVersion = "none"
  /\ secrets = NoSecrets
  /\ getters = <<>>
  /\ logoutCall = [pc |-> "idle", refresh |-> 0]

\* None of the components modelled after the scan command has been used.
RestIdle ==
  PatchIdle /\ NormIdle /\ PostIdle /\ EnumIdle /\ LiveIdle /\ IgnoreIdle /\ AuthIdle

\* The task runner has not been called.
LimiterIdle ==
  /\ kind = "pLimit"
  /\ limit = 1
  /\ nTasks = 0
  /\ fate = <<>>
  /\ i = 0
  /\ workers = <<>>
  /\ tState = <<>>
  /\ starts = <<>>
  /\ runAll = "init"

\* ------------------------------------------------------------------------
\* pLimit / uploadFindings
\* ------------------------------------------------------------------------

\* Array.from({ length: Math.min(limit, tasks.length) }, ...)
PLimitWorkerCountPerTask(lim, n) == n
PLimitWorkerCount(lim, n) == Min(lim, n)

\* Array.from({ length: Math.min(concurrency, findings.length || 1) }, worker)
UploadWorkerCount(n) == Min(UploadConcurrency, IF n = 0 THEN 1 ELSE n)

WorkerCount ==
  CASE kind \in {"pLimit", "enrich"} -> PLimitWorkerCount(limit, nTasks)
    [] kind = "uploadFindings" -> UploadWorkerCount(nTasks)
    [] OTHER -> 1

\* while (i < tasks.length)
HasNextOffByOne(c, n) == c < n - 1
HasNext(c, n) == c < n

TaskStartUnchecked == "running"

\* The enrichment closure starts with `if (token.isCancellationRequested)
\* return;`: such a task is settled as soon as it is called.
TaskStart == IF kind = "enrich" /\ token THEN "skipped" ELSE "running"

\* The sequential enrichment loop:
\* for (let i = 0; i < findings.length; i++) { if (token...) break; ...
LoopBreaks == kind = "sequential" /\ token

\* One pass of a worker's loop, run synchronously up to its next await:
\*   while (i < tasks.length) { const idx = i++; await tasks[idx](); }
\* st is the runner's mutable state; w is the worker's position in `workers`.
WorkerLoop(st, w) ==
  IF HasNext(st.i, nTasks) /\ ~LoopBreaks
  THEN [st EXCEPT !.i = @ + 1,
                  !.workers[w] = [st |-> "awaiting", idx |-> st.i],
                  !.tState[st.i] = TaskStart,
                  !.starts[st.i] = @ + 1]
  ELSE [st EXCEPT !.workers[w] = [st |-> "done", idx |-> -1]]

\* The k async worker bodies are started one after the other; each runs
\* synchronously until its first await.
RECURSIVE SpawnWorkers(_, _)
SpawnWorkers(k, st) ==
  IF k = 0 THEN st
  ELSE LET prev == SpawnWorkers(k - 1, st)
           grown == [prev EXCEPT !.workers = Append(@, [st |-> "new", idx |-> -1])]
       IN WorkerLoop(grown, k)

LimState == [i |-> i, workers |-> workers, tState |-> tState, starts |-> starts]

SetLimState(st) ==
  /\ i' = st.i
  /\ workers' = st.workers
  /\ tState' = st.tState
  /\ starts' = st.starts

InitLimiter ==
  /\ kind \in {"pLimit", "uploadFindings"}
  /\ limit \in 1 .. MaxLimit
  /\ nTasks \in 0 .. MaxTasks
  /\ fate \in [0 .. (nTasks - 1) -> {"ok", "reject"}]
  /\ i = 0
  /\ workers = <<>>
  /\ tState = [t \in 0 .. (nTasks - 1) |-> "idle"]
  /\ starts = [t \in 0 .. (nTasks - 1) |-> 0]
  /\ runAll = "init"
  /\ ScanIdle
  /\ EnrichIdle
  /\ RestIdle

\* The call pLimit(limit, tasks) / uploadFindings(scanId, findings), up to
\* `await Promise.all(workers)`.
RunAll ==
  /\ runAll = "init"
  /\ SetLimState(SpawnWorkers(WorkerCount, LimState))
  /\ runAll' = "pending"
  /\ UNCHANGED <<kind, limit, nTasks, fate, scanVars, enrVars, restVars>>

\* The promise awaited by worker w settles and the worker's continuation runs:
\* a rejection leaves the loop (the async worker rejects), a fulfilment goes
\* round the loop once more.
SettleStep(w) ==
  /\ runAll # "init"
  /\ w \in 1 .. Len(workers)
  /\ workers[w].st = "awaiting"
  /\ LET t == workers[w].idx IN
       IF fate[t] = "reject"
       THEN /\ tState' = [tState EXCEPT ![t] = "rejected"]
            /\ workers' = [workers EXCEPT ![w] = [st |-> "rejected", idx |-> t]]
            /\ UNCHANGED <<i, starts>>
       ELSE SetLimState(WorkerLoop([LimState EXCEPT !.tState[t] = "fulfilled"], w))
  /\ UNCHANGED <<kind, limit, nTasks, fate, runAll>>

TaskSettles(w) ==
  /\ SettleStep(w)
  /\ UNCHANGED <<scanVars, enrVars, restVars>>

\* await Promise.all(workers): rejects with the first worker rejection,
\* resolves once every worker has returned.
AllStep ==
  /\ runAll = "pending"
  /\ \/ /\ \E w \in 1 .. Len(workers) : workers[w].st = "rejected"
        /\ runAll' = "rejected"
     \/ /\ \A w \in 1 .. Len(workers) : workers[w].st = "done"
        /\ runAll' = "resolved"
  /\ UNCHANGED <<kind, limit, nTasks, fate, i, workers, tState, starts>>

AwaitAll ==
  /\ AllStep
  /\ UNCHANGED <<scanVars, enrVars, restVars>>

NextLimiter ==
  \/ RunAll
  \/ \E w \in 1 .. UploadConcurrency : TaskSettles(w)
  \/ AwaitAll

SpecLimiter == InitLimiter /\ [][NextLimiter]_vars

\* Every promise that is pending settles, and microtasks run.
FairSpecLimiter ==
  /\ SpecLimiter
  /\ WF_vars(RunAll)
  /\ \A w \in 1 .. UploadConcurrency : WF_vars(TaskSettles(w))
  /\ WF_vars(AwaitAll)

\* ------------------------------------------------------------------------
\* Properties of the task runner
\* ------------------------------------------------------------------------

\* Tasks whose function has been called and whose promise has not settled.
InFlight == Cardinality({t \in TaskIds : tState[t] = "running"})

NoTaskThrows == \A t \in TaskIds : fate[t] = "ok"

\* No worker is suspended any more and the runner's promise has settled.
LimiterQuiescent ==
  /\ runAll \in {"resolved", "rejected"}
  /\ \A w \in 1 .. Len(workers) : workers[w].st # "awaiting"

\* C1: with limit >= 1, pLimit never has more than `limit` tasks started and
\* not yet settled, and it spawns min(limit, |tasks|) workers.
C1_ConcurrencyBound ==
  kind = "pLimit" =>
    /\ InFlight <= limit
    /\ runAll # "init" => Len(workers) = Min(limit, nTasks)

C1_Witness ==
  /\ kind = "pLimit"
  /\ nTasks > limit
  /\ InFlight = limit
  /\ i = nTasks
  /\ \E t \in TaskIds : tState[t] = "fulfilled"

\* C2 (safety part): when no task throws, no task is ever started twice, the
\* runner never rejects, and when it resolves every task has been started
\* exactly once and has settled; an empty list starts nothing.
C2_OnceSafe ==
  NoTaskThrows =>
    /\ \A t \in TaskIds : starts[t] <= 1
    /\ runAll # "rejected"
    /\ runAll = "resolved" =>
         \A t \in TaskIds : starts[t] = 1 /\ tState[t] = "fulfilled"
    /\ nTasks = 0 => i = 0

\* C2: when no task throws, every task index is started exactly once, every
\* task eventually settles, and the runner resolves, only after all tasks
\* have settled.
C2_EveryTaskOnce ==
  /\ []C2_OnceSafe
  /\ (NoTaskThrows => <>(runAll = "resolved"))

C2_Witness ==
  /\ NoTaskThrows
  /\ nTasks >= 3
  /\ limit = 2
  /\ runAll = "resolved"
  /\ \A t \in TaskIds : starts[t] = 1

\* C3 as claimed: whatever task rejects, once the runner is quiescent every
\* task that does not reject has been started exactly once.
C3_FailureNeverAborts ==
  LimiterQuiescent => \A t \in TaskIds : fate[t] = "ok" => starts[t] = 1

\* ========================================================================
\* Part 2: the batched scan, command sec.scan (extension.ts:33-144) and
\* scanWorkspaceAndUpload (extension.ts:337-415), over the four versions of
\* runSemgrepOnFiles.
\* ========================================================================

Adapters == {"candidates", "probe", "retry", "plain"}
Orchestrators == {"secScan", "scanWorkspaceAndUpload"}
\* What a finished process left on stdout.
OutKinds == {"empty", "garbage", "noresults", "results"}
\* Sample values of the batchSize setting and of configs.length.
CfgBatchSizes == {2, 11}
ConfigCounts == {2, 7}

\* Only sec.scan runs under a cancellable progress notification.
Cancellable == orch \in {"secScan", "secScanIncremental"}

\* sec.scan: Math.max(10, cfg.get('batchSize', 60));
\* scanWorkspaceAndUpload: cfg.get('batchSize') ?? 60
\* sec.scan with constants: BATCH_SIZE
BatchSize ==
  CASE orch = "secScan" -> Max(MinBatchSize, cfgBatchSize)
    [] orch = "secScanIncremental" -> FixedBatchSize
    [] OTHER -> cfgBatchSize

\* targetFiles.slice(i, i + batchSize) of a list of n files, as the index
\* interval [lo, hi) it selects.
SliceEndShort(from, size) == from + size - 1
SliceEnd(from, size) == from + size
Slice(from, size, n) == [lo |-> Min(from, n), hi |-> Min(SliceEnd(from, size), n)]

\* Math.min(100, Math.round((done / total) * 100))
Pct(d, n) == Min(100, (200 * d + n) \div (2 * n))

ScanState ==
  [pc |-> pc, batchI |-> batchI, done |-> done, findingsRaw |-> findingsRaw,
   increments |-> increments, procs |-> procs, invocations |-> invocations,
   lastDelivered |-> lastDelivered, dispatched |-> dispatched,
   returned |-> returned, brokeAt |-> brokeAt]

SetScanState(s) ==
  /\ pc' = s.pc
  /\ batchI' = s.batchI
  /\ done' = s.done
  /\ findingsRaw' = s.findingsRaw
  /\ increments' = s.increments
  /\ procs' = s.procs
  /\ invocations' = s.invocations
  /\ lastDelivered' = s.lastDelivered
  /\ dispatched' = s.dispatched
  /\ returned' = s.returned
  /\ brokeAt' = s.brokeAt

\* How an abort of the batch's AbortController reaches a process started now:
\*  - execFile(..., { signal }) (candidates, plain): the child is killed on
\*    abort, and at once when the signal is already aborted;
\*  - execFileAsync of the probing version: signal.addEventListener('abort',
\*    kill), which never fires for a signal that is already aborted;
\*  - the retrying version and every --version probe pass no signal.
KillMode(rules) ==
  IF rules = "version" \/ adapter = "retry" \/ ~Cancellable THEN "never"
  ELSE IF adapter = "probe" THEN (IF token THEN "never" ELSE "armed")
  ELSE (IF token THEN "preaborted" ELSE "armed")

NewProc(k, bin, rules) ==
  [batch |-> k, bin |-> bin, rules |-> rules, st |-> "running",
   kill |-> KillMode(rules), err |-> FALSE, out |-> "empty", res |-> "pending",
   hangs |-> FALSE]

StartProc(s, k, bin, rules) ==
  [s EXCEPT !.procs = @ \cup {NewProc(k, bin, rules)},
            !.invocations = Append(@, <<k, bin, rules>>)]

\* Processes for the candidates 1 .. n of batch k, started in this order.
RECURSIVE StartProcs(_, _, _)
StartProcs(s, k, n) ==
  IF n = 0 THEN s ELSE StartProc(StartProcs(s, k, n - 1), k, n, "cfg")

\* for (const bin of bins) { try { return await tryOne(bin); } catch ... }:
\* how many candidates have their process started when the adapter is entered.
TryAllAtOnce(n) == n
TryFirst(n) == 1

\* The binary a configured path stands for; the candidates are 1, 2, ...
ConfiguredBin == 0

\* runSemgrepOnFiles(batch, configs, opts) up to its first suspension.
\*  retry: detectSemgrepBin(explicit) returns a given path as it is;
\*  plain: resolveSemgrepBin() returns the environment's or the setting's
\*         path, and 'semgrep' without them.
CallAdapter(s, k) ==
  CASE adapter = "candidates" ->
         StartProcs(s, k, TryFirst(nBins))
    [] adapter = "probe" -> StartProc(s, k, 1, "version")
    [] adapter = "retry" ->
         IF explicitBin THEN StartProc(s, k, ConfiguredBin, "cfg")
         ELSE StartProc(s, k, 1, "version")
    [] OTHER -> StartProc(s, k, IF explicitBin THEN ConfiguredBin ELSE 1, "cfg")

\* if (token.isCancellationRequested) break;
CancelIgnored(tok) == FALSE
CancelObserved(tok) == Cancellable /\ tok

\* The head of the batch loop:
\*   for (let i = 0; i < total; i += batchSize) {
\*     if (token.isCancellationRequested) break;
\*     const batch = targetFiles.slice(i, i + batchSize); ...
\*     const raw = await runSemgrepOnFiles(batch, ...);
LoopTop(s) ==
  IF ~(s.batchI < total) THEN [s EXCEPT !.pc = "post"]
  ELSE IF CancelObserved(token)
  THEN [s EXCEPT !.pc = "post", !.brokeAt = Len(s.dispatched)]
  ELSE CallAdapter(
         [s EXCEPT !.pc = "await",
                   !.dispatched = Append(@, Slice(s.batchI, BatchSize, total))],
         Len(s.dispatched) + 1)

BatchLengthNominal(b) == BatchSize

\* batch.length
BatchLength(b) == b.hi - b.lo

\* The rest of the loop body once runSemgrepOnFiles has returned `raw`:
\*   findingsRaw.push(...raw); done += batch.length; progress.report(...)
\* and the loop's increment, then the head of the loop again.
AfterBatch(s, raw) ==
  LET b == s.dispatched[Len(s.dispatched)]
      d == s.done + BatchLength(b)
  IN LoopTop([s EXCEPT !.returned = Append(@, raw),
                       !.findingsRaw = @ \o raw,
                       !.done = d,
                       !.increments =
                          IF Cancellable THEN Append(@, Pct(d, total)) ELSE @,
                       !.batchI = @ + BatchSize])

\* runSemgrepOnFiles threw: sec.scan's catch shows `Scan failed: ...`;
\* scanWorkspaceAndUpload lets the command reject.
OnThrowContinue(s) == AfterBatch(s, <<>>)
OnThrow(s) == [s EXCEPT !.pc = "failed"]

\* What one process means to the adapter: "results", "empty" or "reject".
\*  candidates: if (err && !stdout) reject; try { resolve(JSON.parse(stdout ||
\*              '{}').results || []) } catch { reject('Failed to parse ...') }
\*  the others: a process error rejects; try { JSON.parse(stdout || '{}') }
\*              catch { {} }; Array.isArray(parsed.results) ? results : []
Resolve(err, out) ==
  IF adapter = "candidates"
  THEN IF err /\ out = "empty" THEN "reject"
       ELSE IF out = "garbage" THEN "reject"
       ELSE IF out = "results" THEN "results" ELSE "empty"
  ELSE IF err THEN "reject"
       ELSE IF out = "results" THEN "results" ELSE "empty"

\* The records a batch's scan reports: one record, tagged with the batch.
RawOf(k) == <<k>>

\* What the adapter does when the process of one attempt has rejected.
OnReject(s, p) ==
  CASE adapter = "candidates" /\ p.bin < nBins ->
         StartProc(s, p.batch, p.bin + 1, "cfg")
    [] adapter = "retry" /\ p.rules = "cfg" /\ nConfigs > RetryThreshold ->
         StartProc(s, p.batch, p.bin, "min")
    [] OTHER -> OnThrow(s)

\* The continuation of a --version probe.
\*  probe: the first candidate that answers is used, none is an error;
\*  retry: semgrep when it answers, otherwise npx -y semgrep.
OnProbe(s, p) ==
  IF adapter = "probe"
  THEN IF ~p.err THEN StartProc(s, p.batch, p.bin, "cfg")
       ELSE IF p.bin < NumCandidates THEN StartProc(s, p.batch, p.bin + 1, "version")
       ELSE OnThrow(s)
  ELSE StartProc(s, p.batch, IF p.err THEN 2 ELSE 1, "cfg")

InitScan ==
  /\ orch \in Orchestrators
  /\ adapter \in Adapters
  /\ cfgBatchSize \in CfgBatchSizes
  /\ total \in 0 .. (MaxBatches * BatchSize + 1)
  /\ nBins \in IF adapter = "candidates" THEN 1 .. MaxBins ELSE {1}
  /\ nConfigs \in IF adapter = "retry" THEN ConfigCounts ELSE {2}
  /\ explicitBin \in IF adapter \in {"retry", "plain"} THEN BOOLEAN ELSE {FALSE}
  /\ token = FALSE
  /\ cancelAt = [phase |-> "never", batch |-> 0]
  /\ pc = "idle"
  /\ batchI = 0
  /\ done = 0
  /\ findingsRaw = <<>>
  /\ increments = <<>>
  /\ published = NotPublished
  /\ procs = {}
  /\ invocations = <<>>
  /\ lastDelivered = NoProc
  /\ dispatched = <<>>
  /\ returned = <<>>
  /\ brokeAt = -1
  /\ LimiterIdle
  /\ EnrichIdle
  /\ RestIdle

\* The command starts: clearDiagnostics(), then the file enumeration is awaited.
StartScan ==
  /\ pc = "idle"
  /\ pc' = "enumerating"
  /\ UNCHANGED <<scanIn, token, cancelAt, batchI, done, findingsRaw, increments,
                 published, procs, invocations, lastDelivered, dispatched,
                 returned, brokeAt, limVars, enrVars, restVars>>

CancelNotLookedAt(tok) == FALSE

\* if (token.isCancellationRequested) return;   after the enumeration
CancelledWhileEnumerating(tok) == Cancellable /\ tok

\* enumerateFiles / collectFiles has returned:
\*   if (token.isCancellationRequested) return;
\*   if (targetFiles.length === 0) { ...; return; }
\* and the batch loop is entered.
EnumerationDone ==
  /\ pc = "enumerating"
  /\ IF CancelledWhileEnumerating(token)
     THEN SetScanState([ScanState EXCEPT !.pc = "returned"])
     ELSE IF total = 0
     THEN SetScanState([ScanState EXCEPT !.pc = "nofiles"])
     ELSE SetScanState(LoopTop(ScanState))
  /\ UNCHANGED <<scanIn, token, cancelAt, published, limVars, enrVars, restVars>>

\* A running process ends, unless it hangs. A killed child always reports an
\* error; a child killed before it ran has written nothing.
ProcExits(p, err, out) ==
  /\ p \in procs
  /\ p.st = "running"
  /\ ~p.hangs
  /\ p.kill \in {"killed", "preaborted"} => err
  /\ (p.kill = "preaborted" \/ p.rules = "version") => out = "empty"
  /\ procs' = (procs \ {p}) \cup {[p EXCEPT !.st = "exited", !.err = err, !.out = out]}
  /\ UNCHANGED <<scanIn, token, cancelAt, pc, batchI, done, findingsRaw, increments,
                 published, invocations, lastDelivered, dispatched, returned,
                 brokeAt, limVars, enrVars, restVars>>

\* The execFile callback of an ended process and everything that runs from it
\* before the next suspension. The sec.scan with constants maps the batch's
\* records, pushes them to `findings` and calls publishFindings(findings)
\* before it counts the batch.
Deliver(p) ==
  /\ p \in procs
  /\ p.st = "exited"
  /\ pc = "await"
  /\ LET r == IF p.rules = "version" THEN (IF p.err THEN "reject" ELSE "found")
              ELSE Resolve(p.err, p.out)
         s == [ScanState EXCEPT
                 !.procs = @ \ {p},
                 !.lastDelivered = [p EXCEPT !.st = "delivered", !.res = r]]
     IN SetScanState(
          IF p.rules = "version" THEN OnProbe(s, p)
          ELSE IF r = "reject" THEN OnReject(s, p)
          ELSE AfterBatch(s, IF r = "results" THEN RawOf(p.batch) ELSE <<>>))
  /\ published' = IF orch = "secScanIncremental" /\ Len(returned') > Len(returned)
                  THEN findingsRaw' ELSE published
  /\ UNCHANGED <<scanIn, token, cancelAt, limVars, enrVars, restVars>>

\* The user cancels the progress notification: the token is set and every
\* registered listener runs, each aborting its batch's AbortController.
Cancel ==
  /\ Cancellable
  /\ ~token
  /\ pc \in {"enumerating", "await", "post", "enrich", "enriching"}
  /\ pc = "enriching" => \E w \in 1 .. Len(workers) : workers[w].st = "awaiting"
  /\ token' = TRUE
  /\ cancelAt' =
       [phase |-> IF pc # "await" THEN pc
                  ELSE IF \E p \in procs : p.st = "running" /\ p.rules = "version"
                  THEN "probing"
                  ELSE IF \E p \in procs : p.st = "running" THEN "running"
                  ELSE "exited",
        batch |-> Len(dispatched)]
  /\ procs' = {IF p.st = "running" /\ p.kill = "armed"
               THEN [p EXCEPT !.kill = "killed", !.hangs = FALSE] ELSE p : p \in procs}
  /\ UNCHANGED <<scanIn, pc, batchI, done, findingsRaw, increments, published,
                 invocations, lastDelivered, dispatched, returned, brokeAt, limVars, enrVars, restVars>>

\* After the loop: findingsRaw.map(fromSemgrep), the severity filter, the
\* awaited snippets, publishFindings(findings). The enrichment follows in
\* sec.scan, the upload in scanWorkspaceAndUpload.
PostLoop ==
  /\ pc = "post"
  /\ published' = IF orch = "secScanIncremental" THEN published ELSE findingsRaw
  /\ pc' = IF Cancellable THEN "enrich" ELSE "done"
  /\ UNCHANGED <<scanIn, token, cancelAt, batchI, done, findingsRaw, increments,
                 procs, invocations, lastDelivered, dispatched, returned, brokeAt,
                 limVars, enrVars, restVars>>

\* The enrichment phase as a whole, as far as the scan state goes.
EnrichmentPhase ==
  /\ pc = "enrich"
  /\ pc' = "report"
  /\ UNCHANGED <<scanIn, token, cancelAt, batchI, done, findingsRaw, increments,
                 published, procs, invocations, lastDelivered, dispatched,
                 returned, brokeAt, limVars, enrVars, restVars>>

\* a.relFile.localeCompare(b.relFile) ||
\*   SEV_RANK[b.severity] - SEV_RANK[a.severity]   is negative
Before(a, b) ==
  \/ a.relFile < b.relFile
  \/ a.relFile = b.relFile /\ a.sev > b.sev

\* Array.prototype.sort with that comparator; the sort is stable.
RECURSIVE InsertItem(_, _)
InsertItem(x, sorted) ==
  IF sorted = <<>> THEN <<x>>
  ELSE IF Before(x, Head(sorted)) THEN <<x>> \o sorted
  ELSE <<Head(sorted)>> \o InsertItem(x, Tail(sorted))

RECURSIVE SortItems(_)
SortItems(items) ==
  IF items = <<>> THEN <<>>
  ELSE InsertItem(items[Len(items)], SortItems(SubSeq(items, 1, Len(items) - 1)))

\* if (!token.isCancellationRequested) {
\*   lastReportItems = reportItems.sort(...); openSecurityReport(...) }
\* else { showWarningMessage('VulnScan: cancelled.') }
\* The sequential version opens the report on reportItems as they are.
Finish ==
  /\ pc = "report"
  /\ IF token
     THEN pc' = "cancelled" /\ UNCHANGED <<reportItems, report>>
     ELSE /\ pc' = "done"
          /\ reportItems' =
               IF kind = "sequential" THEN reportItems ELSE SortItems(reportItems)
          /\ report' = reportItems'
  /\ UNCHANGED <<scanIn, token, cancelAt, batchI, done, findingsRaw, increments,
                 published, procs, invocations, lastDelivered, dispatched,
                 returned, brokeAt, limVars, hasKey, findings, restVars>>

NextScan ==
  \/ StartScan
  \/ EnumerationDone
  \/ \E p \in procs, err \in BOOLEAN, out \in OutKinds : ProcExits(p, err, out)
  \/ \E p \in procs : Deliver(p)
  \/ Cancel
  \/ PostLoop
  \/ EnrichmentPhase
  \/ Finish

SpecScan == InitScan /\ [][NextScan]_vars

\* ------------------------------------------------------------------------
\* Processes that do not exit, and the timeout of execFile
\* ------------------------------------------------------------------------

\* The options the process was started with have a `timeout`:
\*  candidates: execFile(bin, args, { ..., timeout: (opts.timeoutSec ?? 60) * 1000,
\*              signal })
\*  retry:      execFileAsync('semgrep', ['--version'], { timeout: 3000 }) and
\*              runOnce's { timeout: opt.timeoutSec * 1000, maxBuffer }
\*  probe:      execFile(cmd, args, { maxBuffer }), probes and scans alike
\*  plain:      execFileAsync(bin, args, { signal, env })
\* The --timeout=N argument of the last two is semgrep's own option.
HasTimeout(p) == adapter \in {"candidates", "retry"}

\* The process stops making progress: it will not exit by itself.
Hangs(p) ==
  /\ p \in procs
  /\ p.st = "running"
  /\ ~p.hangs
  /\ p.kill # "killed"
  /\ procs' = (procs \ {p}) \cup {[p EXCEPT !.hangs = TRUE]}
  /\ UNCHANGED <<scanIn, token, cancelAt, pc, batchI, done, findingsRaw, increments,
                 published, invocations, lastDelivered, dispatched, returned,
                 brokeAt, limVars, enrVars, restVars>>

\* The timeout of execFile elapses with the child still running: node kills
\* the child, which then ends with an error.
TimeoutKills(p) ==
  /\ p \in procs
  /\ p.st = "running"
  /\ HasTimeout(p)
  /\ p.kill # "killed"
  /\ procs' = (procs \ {p}) \cup {[p EXCEPT !.kill = "killed", !.hangs = FALSE]}
  /\ UNCHANGED <<scanIn, token, cancelAt, pc, batchI, done, findingsRaw, increments,
                 published, invocations, lastDelivered, dispatched, returned,
                 brokeAt, limVars, enrVars, restVars>>

\* One batch of sec.scan, whose processes may hang.
InitTimed ==
  /\ InitScan
  /\ orch = "secScan"
  /\ total \in 1 .. MaxBatches

NextTimed ==
  \/ NextScan
  \/ \E p \in procs : Hangs(p)
  \/ \E p \in procs : TimeoutKills(p)

SpecTimed == InitTimed /\ [][NextTimed]_vars

\* A process that does not hang exits, an elapsed timeout fires, callbacks
\* and continuations run; the user need not cancel.
FairSpecTimed ==
  /\ SpecTimed
  /\ WF_vars(StartScan)
  /\ WF_vars(EnumerationDone)
  /\ WF_vars(\E p \in procs, err \in BOOLEAN, out \in OutKinds : ProcExits(p, err, out))
  /\ WF_vars(\E p \in procs : Deliver(p))
  /\ WF_vars(\E p \in procs : TimeoutKills(p))
  /\ WF_vars(PostLoop)
  /\ WF_vars(EnrichmentPhase)
  /\ WF_vars(Finish)

\* The sec.scan with constants, over file counts around its batch size.
IncrementalTotals ==
  {0, 1, FixedBatchSize, FixedBatchSize + 1, MaxBatches * FixedBatchSize + 1}

InitScanIncremental ==
  /\ orch = "secScanIncremental"
  /\ adapter \in Adapters
  /\ cfgBatchSize = FixedBatchSize
  /\ total \in IncrementalTotals
  /\ nBins \in IF adapter = "candidates" THEN 1 .. MaxBins ELSE {1}
  /\ nConfigs \in IF adapter = "retry" THEN ConfigCounts ELSE {2}
  /\ explicitBin \in IF adapter \in {"retry", "plain"} THEN BOOLEAN ELSE {FALSE}
  /\ token = FALSE
  /\ cancelAt = [phase |-> "never", batch |-> 0]
  /\ pc = "idle"
  /\ batchI = 0
  /\ done = 0
  /\ findingsRaw = <<>>
  /\ increments = <<>>
  /\ published = NotPublished
  /\ procs = {}
  /\ invocations = <<>>
  /\ lastDelivered = NoProc
  /\ dispatched = <<>>
  /\ returned = <<>>
  /\ brokeAt = -1
  /\ LimiterIdle
  /\ EnrichIdle
  /\ RestIdle

SpecScanIncremental == InitScanIncremental /\ [][NextScan]_vars

\* ------------------------------------------------------------------------
\* Properties of the batched scan
\* ------------------------------------------------------------------------

Ceil(n, b) == (n + b - 1) \div b

RECURSIVE Flatten(_)
Flatten(ss) == IF ss = <<>> THEN <<>> ELSE Head(ss) \o Flatten(Tail(ss))

\* The scanner processes (not the --version probes) started for batch k.
ScanInvocations(k) ==
  {j \in 1 .. Len(invocations) : invocations[j][1] = k /\ invocations[j][3] # "version"}

ScanTerminal == {"done", "cancelled", "failed", "nofiles", "returned"}

\* C4: an uncancelled, error-free run over n files with batch size b >= 1
\* dispatches ceil(n/b) batches, each a contiguous slice of 1..b files, and the
\* batches in dispatch order make up the file list, nothing twice, nothing
\* left out.
C4_BatchingComplete ==
  /\ \A k \in 1 .. Len(dispatched) :
       /\ dispatched[k].lo = (IF k = 1 THEN 0 ELSE dispatched[k - 1].hi)
       /\ dispatched[k].hi - dispatched[k].lo \in 1 .. BatchSize
       /\ dispatched[k].hi <= total
  /\ (pc \in {"post", "enrich", "report", "done", "cancelled"} /\ brokeAt = -1) =>
       /\ Len(dispatched) = Ceil(total, BatchSize)
       /\ dispatched[Len(dispatched)].hi = total

C4_Witness ==
  /\ pc = "done"
  /\ Len(dispatched) = 3
  /\ total = 2 * BatchSize + 1
  /\ dispatched[3].hi - dispatched[3].lo = 1

\* C5: batches are processed one at a time and in enumeration order: never
\* two external processes in flight, and a process of batch k+1 exists only
\* when the invocations of batches 1..k have returned.
C5_SequentialBatches ==
  /\ Cardinality({p \in procs : p.st = "running"}) <= 1
  /\ \A p \in procs : p.batch = Len(dispatched) /\ Len(returned) = p.batch - 1
  /\ \A k \in 1 .. Len(dispatched) : dispatched[k].lo = (k - 1) * BatchSize

C5_Witness ==
  /\ \E p \in procs : p.st = "running" /\ p.rules = "cfg" /\ p.batch = 2
  /\ Len(returned) = 1

\* C6: when cancellation is requested after the process of batch k has ended
\* and before batch k+1 is started, no scanner is invoked for a later batch,
\* and once the loop is left the accumulated raw records are exactly those
\* the invocations of batches 1..k returned, and they are what is published.
C6_CancelBetweenBatches ==
  cancelAt.phase = "exited" =>
    /\ \A j \in 1 .. Len(invocations) : invocations[j][1] <= cancelAt.batch
    /\ Len(dispatched) = cancelAt.batch
    /\ pc \in {"post", "enrich", "report", "cancelled"} =>
         /\ Len(returned) = cancelAt.batch
         /\ findingsRaw = Flatten(returned)
    /\ pc \in {"enrich", "report", "cancelled"} => published = Flatten(returned)
    /\ pc # "done"

C6_Witness ==
  /\ cancelAt = [phase |-> "exited", batch |-> 2]
  /\ Ceil(total, BatchSize) = 3
  /\ pc = "cancelled"
  /\ brokeAt = 2
  /\ findingsRaw = <<1, 2>>
  /\ published = <<1, 2>>

\* C7 as claimed: a run cancelled while a scanner process was in flight ends
\* in the cancelled state, not in the error state, with the records of the
\* batches completed before it published.
C7_CancelInFlightEndsCancelled ==
  (cancelAt.phase = "running" /\ pc \in ScanTerminal) =>
    /\ pc = "cancelled"
    /\ Len(returned) >= cancelAt.batch - 1
    /\ published = Flatten(returned)

\* The last process handled was a scanner run that failed with a tool
\* execution error: the process reported an error and wrote nothing.
ToolErrorDelivered ==
  /\ lastDelivered.rules \in {"cfg", "min"}
  /\ lastDelivered.err
  /\ lastDelivered.out = "empty"

\* C8 as claimed: a tool execution error for batch k ends the run in the
\* error state with no second scanner invocation for batch k and none for a
\* later batch.
C8_NoRetry ==
  ToolErrorDelivered =>
    /\ pc = "failed"
    /\ Cardinality(ScanInvocations(lastDelivered.batch)) = 1
    /\ \A j \in 1 .. Len(invocations) : invocations[j][1] <= lastDelivered.batch

\* The scanner runs one call of the adapter may make for one batch.
MaxAttempts ==
  CASE adapter = "candidates" -> nBins
    [] adapter = "retry" /\ nConfigs > 6 -> 2
    [] OTHER -> 1

\* C8 amended: after a tool execution error for batch k the adapter may run
\* the scanner again for batch k, once per further candidate binary (candidate
\* list version) or once with the reduced rule set (retrying version, more
\* than 6 rule sets); when no such attempt is left the run ends in the error
\* state and no scanner is invoked for a later batch.
C8_RetryThenAbort ==
  /\ \A k \in 1 .. Len(dispatched) : Cardinality(ScanInvocations(k)) <= MaxAttempts
  /\ ToolErrorDelivered =>
       LET k == lastDelivered.batch IN
         IF Cardinality(ScanInvocations(k)) = MaxAttempts /\ procs = {}
         THEN /\ pc = "failed"
              /\ \A j \in 1 .. Len(invocations) : invocations[j][1] <= k
         ELSE /\ pc = "await"
              /\ \E p \in procs : p.batch = k /\ p.rules # "version"
              /\ Len(returned) = k - 1

C8_Witness ==
  /\ ToolErrorDelivered
  /\ pc = "failed"
  /\ lastDelivered.batch = 2
  /\ Cardinality(ScanInvocations(2)) = 2
  /\ Ceil(total, BatchSize) = 3

\* C9 as claimed: a scanner process that completes with stdout that is not
\* parseable JSON, or without a results array, makes the invocation return an
\* empty list and the run go on.
C9_MalformedOutputIsEmpty ==
  (/\ lastDelivered.rules \in {"cfg", "min"}
   /\ ~lastDelivered.err
   /\ lastDelivered.out \in {"garbage", "noresults"}) =>
     /\ lastDelivered.res = "empty"
     /\ pc # "failed"
     /\ Len(returned) >= lastDelivered.batch
     /\ returned[lastDelivered.batch] = <<>>

\* ---------------------------------------------------------------------------
\* The enrichment phase of sec.scan
\* ---------------------------------------------------------------------------

\* relFile and SEV_RANK[severity] of the findings that reach the phase.
FindingPool == {[relFile |-> 1, sev |-> 1],
                [relFile |-> 1, sev |-> 3],
                [relFile |-> 2, sev |-> 1]}

EnrichConcurrency(cfg) == Min(MaxEnrichConcurrency, Max(1, cfg))

\* What enrichFinding returns for finding t: the parsed JSON of the model's
\* answer, whose fields may be missing. explanation_md 0 stands for '' and
\* unified_diff -1 for null.
Enriched(t, outcome) ==
  IF outcome = "ok"
  THEN [explanation_md |-> t + 1, unified_diff |-> t + 1]
  ELSE [explanation_md |-> 0, unified_diff |-> -1]

\* toUIItem(f, explanation_md, unified_diff, cwe, owasp)
ToUIItem(t, md, diff) ==
  [f |-> t, relFile |-> findings[t + 1].relFile, sev |-> findings[t + 1].sev,
   explanation_md |-> md, unified_diff |-> diff]

\* toUIItem(f, '', null, f.cwe, f.owasp)
BareItem(t) == ToUIItem(t, 0, -1)

PushedDropFailed(t, outcome) ==
  IF outcome = "throw" THEN <<>>
  ELSE <<ToUIItem(t, Enriched(t, outcome).explanation_md,
                  Enriched(t, outcome).unified_diff)>>

\* try { const enriched = await enrichFinding(...);
\*       reportItems.push(toUIItem(f, enriched?.explanation_md ?? '',
\*                                 enriched?.fix?.unified_diff ?? null, ...)) }
\* catch { reportItems.push(toUIItem(f, '', null, f.cwe, f.owasp)) }
Pushed(t, outcome) ==
  IF outcome = "throw" THEN <<BareItem(t)>>
  ELSE <<ToUIItem(t, Enriched(t, outcome).explanation_md,
                  Enriched(t, outcome).unified_diff)>>

\* The state at `const reportItems: UIItem[] = []`, the findings published.
InitEnrich ==
  /\ pc = "enrich"
  /\ ScanBlank
  /\ kind \in {"enrich", "sequential"}
  /\ limit \in IF kind = "enrich"
               THEN {EnrichConcurrency(c) : c \in 0 .. MaxLimit} ELSE {1}
  /\ hasKey \in BOOLEAN
  /\ findings \in UNION {[1 .. n -> FindingPool] : n \in 0 .. MaxFindings}
  /\ nTasks = Len(findings)
  /\ fate \in IF hasKey THEN [0 .. (nTasks - 1) -> {"ok", "okEmpty", "throw"}]
              ELSE {[t \in 0 .. (nTasks - 1) |-> "ok"]}
  /\ i = 0
  /\ workers = <<>>
  /\ tState = [t \in 0 .. (nTasks - 1) |-> "idle"]
  /\ starts = [t \in 0 .. (nTasks - 1) |-> 0]
  /\ runAll = "init"
  /\ reportItems = <<>>
  /\ report = <<"none">>
  /\ RestIdle

\* if (hasKey && findings.length > 0 && !token.isCancellationRequested) {
\*   await pLimit(enrichConcurrency, findings.map(...))   -- or the for loop
\* } else { for (const f of findings) reportItems.push(toUIItem(f, '', null, ...)) }
EnrichBegin ==
  /\ pc = "enrich"
  /\ IF hasKey /\ Len(findings) > 0 /\ ~token
     THEN /\ SetLimState(SpawnWorkers(WorkerCount, LimState))
          /\ runAll' = "pending"
          /\ pc' = "enriching"
          /\ UNCHANGED reportItems
     ELSE /\ reportItems' = [k \in 1 .. Len(findings) |-> BareItem(k - 1)]
          /\ pc' = "report"
          /\ UNCHANGED <<i, workers, tState, starts, runAll>>
  /\ UNCHANGED <<kind, limit, nTasks, fate, hasKey, findings, report, scanIn,
                 token, cancelAt, batchI, done, findingsRaw, increments,
                 published, procs, invocations, lastDelivered, dispatched,
                 returned, brokeAt, restVars>>

\* The task awaited by worker w settles: a task that made the enrichFinding
\* call pushes its item, a task that returned on the token pushes nothing;
\* then the worker takes the next index.
EnrichSettles(w) ==
  /\ pc = "enriching"
  /\ SettleStep(w)
  /\ LET t == workers[w].idx IN
       reportItems' = reportItems \o
         (IF tState[t] = "running" THEN Pushed(t, fate[t]) ELSE <<>>)
  /\ UNCHANGED <<hasKey, findings, report, scanVars, restVars>>

\* The awaited pLimit promise settles (the loop is left), out.show(true).
EnrichEnd ==
  /\ pc = "enriching"
  /\ AllStep
  /\ pc' = IF runAll' = "resolved" THEN "report" ELSE "failed"
  /\ UNCHANGED <<enrVars, scanIn, token, cancelAt, batchI, done, findingsRaw,
                 increments, published, procs, invocations, lastDelivered,
                 dispatched, returned, brokeAt, restVars>>

NextEnrich ==
  \/ EnrichBegin
  \/ \E w \in 1 .. MaxEnrichConcurrency : EnrichSettles(w)
  \/ EnrichEnd
  \/ Cancel
  \/ Finish

SpecEnrich == InitEnrich /\ [][NextEnrich]_vars

\* The items of the opened report that were built from finding t.
ItemsOf(t) == {k \in 1 .. Len(report) : report[k].f = t}

\* C10: when an uncancelled run sends N findings to enrichment, the report it
\* opens has exactly N items, one per finding, whatever calls fail: the item of
\* a failed call has the finding's own fields, an empty explanation and no
\* diff; the item of a succeeded call has what the call returned.
C10_EnrichmentIsolation ==
  (pc = "done" /\ hasKey) =>
    /\ Len(report) = Len(findings)
    /\ \A t \in TaskIds :
         /\ Cardinality(ItemsOf(t)) = 1
         /\ \A k \in ItemsOf(t) :
              /\ report[k].relFile = findings[t + 1].relFile
              /\ report[k].sev = findings[t + 1].sev
              /\ fate[t] = "throw" =>
                   report[k].explanation_md = 0 /\ report[k].unified_diff = -1
              /\ fate[t] = "ok" =>
                   report[k].explanation_md = t + 1 /\ report[k].unified_diff = t + 1
              /\ fate[t] = "okEmpty" =>
                   report[k].explanation_md = 0 /\ report[k].unified_diff = -1

\* Three findings went through pLimit, the middle call failed and the others
\* succeeded, and the report is open.
C10_Witness ==
  /\ pc = "done"
  /\ hasKey
  /\ kind = "enrich"
  /\ runAll = "resolved"
  /\ Len(findings) = 3
  /\ fate = [t \in 0 .. 2 |-> IF t = 1 THEN "throw" ELSE "ok"]
  /\ Len(report) = 3

\* ---------------------------------------------------------------------------
\* The patch engine: tryApplyUnifiedDiff and extractHunks of report.ts and
\* uploader.ts. A text is its sequence of lines; a line is a number, 0 for a
\* line of white space only.
\* ---------------------------------------------------------------------------

\* The hunks the diffs are made of: the kinds of the old lines, in order, and
\* the number of added lines that follow them.
\* dollar: the added line holds "$$", as the code of a fix may.
HunkShapes == {[old |-> <<"-">>, adds |-> 1, dollar |-> FALSE],
               [old |-> <<"-">>, adds |-> 0, dollar |-> FALSE],
               [old |-> <<" ", "-">>, adds |-> 1, dollar |-> FALSE],
               [old |-> <<"-", "-">>, adds |-> 1, dollar |-> FALSE],
               [old |-> <<" ">>, adds |-> 1, dollar |-> FALSE],
               [old |-> <<>>, adds |-> 1, dollar |-> FALSE],
               [old |-> <<"-">>, adds |-> 1, dollar |-> TRUE]}

\* The line "$$" and the line "$".
DollarDollar == 8
Dollar == 6

\* A file of n lines whose second line may be blank.
FileText(n, blank2) == [k \in 1 .. n |-> IF blank2 /\ k = 2 THEN 0 ELSE k]

\* The body of hunk number id, written against text at line oldStart.
HunkBody(text, shape, oldStart, id) ==
  [j \in 1 .. Len(shape.old) |->
     [kind |-> shape.old[j],
      txt |-> IF oldStart + j - 1 \in 1 .. Len(text)
              THEN text[oldStart + j - 1] ELSE 7]]
  \o [j \in 1 .. shape.adds |->
        [kind |-> "+", txt |-> IF shape.dollar THEN DollarDollar ELSE 10 * id + j]]

\* A count of the header `@@ -a,b +c,d @@`; a count of 1 is left out.
Count(n) == IF n = 1 THEN <<>> ELSE <<n>>

\* The lines of the diff of one hunk: its header, its body and a line that
\* is none of '+', '-', ' ' (such as "\ No newline at end of file").
HunkText(text, shape, oldStart, id) ==
  LET body == HunkBody(text, shape, oldStart, id)
      kept == Len(SelectSeq(body, LAMBDA l : l.kind # "-"))
  IN <<[kind |-> "@@", oldStart |-> oldStart, oldLines |-> Count(Len(shape.old)),
        newStart |-> oldStart, newLines |-> Count(kept)]>>
     \o body \o <<[kind |-> "other", txt |-> 0]>>

\* The lines `--- a/file` and `+++ b/file`: their first characters are '-'
\* and '+'.
FileHeader == <<[kind |-> "-", txt |-> -1], [kind |-> "+", txt |-> -1]>>

RECURSIVE DiffText(_, _, _)
DiffText(text, spec, k) ==
  IF k > Len(spec) THEN <<>>
  ELSE HunkText(text, spec[k].shape, spec[k].oldStart, k)
       \o DiffText(text, spec, k + 1)

ParseCountZero(c) == IF c = <<>> THEN 0 ELSE c[1]

\* parseInt(m[2] || '1', 10)
ParseCount(c) == IF c = <<>> THEN 1 ELSE c[1]

\* extractHunks: a line matching the header opens a hunk, the '+', '-' and
\* ' ' lines after it are its lines, every other line is skipped.
\* The inner loop `while (i < lines.length && !lines[i].startsWith('@@'))`
\* leaves the hunk at any line that starts with "@@"; when that line does
\* not match the header (kind "@@x"), the outer loop skips the lines up to
\* the next header. A line is its first character (kind) and the rest (txt).
RECURSIVE ExtractFrom(_, _, _, _)
ExtractFrom(d, k, hs, inHunk) ==
  IF k > Len(d) THEN hs
  ELSE IF d[k].kind = "@@"
  THEN ExtractFrom(d, k + 1,
         Append(hs, [oldStart |-> d[k].oldStart,
                     oldLines |-> ParseCount(d[k].oldLines),
                     newStart |-> d[k].newStart,
                     newLines |-> ParseCount(d[k].newLines),
                     lines |-> <<>>]), TRUE)
  ELSE IF d[k].kind = "@@x"
  THEN ExtractFrom(d, k + 1, hs, FALSE)
  ELSE IF inHunk /\ d[k].kind \in {"+", "-", " "}
  THEN ExtractFrom(d, k + 1,
         [hs EXCEPT ![Len(hs)].lines = Append(@, [kind |-> d[k].kind, txt |-> d[k].txt])],
         TRUE)
  ELSE ExtractFrom(d, k + 1, hs, inHunk)

ExtractHunks(d) == ExtractFrom(d, 1, <<>>, FALSE)

\* h.lines.filter(l => l.kind !== ch).map(l => l.txt)
TextWithout(h, ch) ==
  LET kept == SelectSeq(h.lines, LAMBDA l : l.kind # ch)
  IN [j \in 1 .. Len(kept) |-> kept[j].txt]

\* The lines of block.join('\n') put in place of whole lines: an empty block
\* is the empty string, which is one empty line.
AsLines(block) == IF block = <<>> THEN <<0>> ELSE block

\* edit.replace(uri, new Range(start of line a, end of line b), newBlock),
\* lines counted from 0.
ReplaceLines(doc, a, b, block) ==
  SubSeq(doc, 1, a) \o AsLines(block) \o SubSeq(doc, b + 2, Len(doc))

\* The first line at which block occurs in doc, 0 if it does not.
IndexOfBlock(doc, block) ==
  LET at == {p \in 1 .. (Len(doc) - Len(block) + 1) :
               SubSeq(doc, p, p + Len(block) - 1) = block}
  IN IF at = {} THEN 0 ELSE CHOOSE p \in at : \A q \in at : p <= q

\* The string put in by text.replace(original, added): in a replacement
\* string "$$" stands for "$".
Replacement(added) ==
  [j \in 1 .. Len(added) |-> IF added[j] = DollarDollar THEN Dollar ELSE added[j]]

\* The fast path: text.replace(original, added) when the diff has its file
\* header, a snippet was passed, there is one hunk and the snippet or the
\* text includes the original block; the replacement changes the text only
\* when the text includes it. The result is text when nothing changes.
FastPathText(doc, hs, snip, d) ==
  IF snip # "none" /\ Len(d) >= 2 /\ SubSeq(d, 1, 2) = FileHeader /\ Len(hs) = 1
  THEN LET original == TextWithout(hs[1], "+")
           added == TextWithout(hs[1], "-")
           p == IndexOfBlock(doc, original)
       IN IF p > 0
          THEN ReplaceLines(doc, p - 1, p + Len(original) - 2, Replacement(added))
          ELSE doc
  ELSE doc

\* One pass of the for loop up to its await: the range of hunk k in the
\* current document, the blank-block test, the edit. doc.lineAt throws on a
\* line that is not in the document and the catch returns false.
PrepareHunk(doc, hs, k, off) ==
  IF k > Len(hs) THEN [pc |-> "save", edit |-> <<>>]
  ELSE LET h == hs[k]
           start == h.oldStart - 1 + off
           end == start + h.oldLines
           a == Max(0, start)
           b == Min(Len(doc) - 1, end - 1)
       IN IF a > Len(doc) - 1 \/ b < 0 THEN [pc |-> "false", edit |-> <<>>]
          ELSE IF a > b \/ \A j \in a .. b : doc[j + 1] = 0
          THEN [pc |-> "false", edit |-> <<>>]
          ELSE [pc |-> "edit", edit |-> <<a, b, TextWithout(h, "-")>>]

\* A file, a diff written against it and the snippet argument.
MaxLines == 4
MaxHunks == 2

\* The text after line k was rewritten (no line for k = 0): what the file
\* can have become since the diff was written.
Rewritten(text, k) == [j \in 1 .. Len(text) |-> IF j = k THEN 9 ELSE text[j]]

InitPatch ==
  /\ pcPatch = "idle"
  /\ \E n \in 1 .. MaxLines, blank2 \in BOOLEAN, header \in BOOLEAN :
       /\ blank2 => n >= 2
       /\ \E changed \in 0 .. n : origLines = Rewritten(FileText(n, blank2), changed)
       /\ \E m \in 0 .. MaxHunks :
            \E spec \in [1 .. m -> [shape : HunkShapes, oldStart : 0 .. (n + 1)]] :
              /\ \A j \in 1 .. (m - 1) : spec[j].oldStart < spec[j + 1].oldStart
              /\ diffLines = (IF header THEN FileHeader ELSE <<>>)
                              \o DiffText(FileText(n, blank2), spec, 1)
              /\ snippet \in IF m = 1 /\ header /\ spec[1].shape.old # <<>>
                             THEN {"none", "given"} ELSE {"none"}
  /\ docLines = origLines
  /\ diskLines = origLines
  /\ hunks = <<>>
  /\ hunkIdx = 0
  /\ offset = 0
  /\ pending = <<>>
  /\ LimiterIdle
  /\ ScanIdle
  /\ EnrichIdle
  /\ NormIdle
  /\ PostIdle
  /\ EnumIdle
  /\ LiveIdle
  /\ IgnoreIdle /\ AuthIdle

\* The call up to its first await after the document is open: the fast path
\* when it changes the text, the first pass of the loop otherwise.
PatchOpen ==
  /\ pcPatch = "idle"
  /\ LET hs == ExtractHunks(diffLines)
         fast == FastPathText(docLines, hs, snippet, diffLines)
         first == PrepareHunk(docLines, hs, 1, 0)
     IN /\ hunks' = hs
        /\ IF fast # docLines
           THEN /\ pcPatch' = "fastEdit"
                /\ pending' = <<0, Len(docLines) - 1, fast>>
                /\ hunkIdx' = 0
           ELSE /\ pcPatch' = first.pc
                /\ pending' = first.edit
                /\ hunkIdx' = 1
  /\ UNCHANGED <<origLines, docLines, diskLines, diffLines, snippet, offset,
                 limVars, scanVars, enrVars, normVars,
                 postVars, enumVars, liveVars,
                 ignVars, authVars>>

\* await vscode.workspace.applyEdit(edit) returns ok: a refused edit returns
\* false; an applied one changes the document and the loop goes on.
EditReturns(ok) ==
  /\ pcPatch \in {"fastEdit", "edit"}
  /\ IF ~ok
     THEN /\ pcPatch' = "false"
          /\ UNCHANGED <<docLines, hunkIdx, offset, pending>>
     ELSE /\ docLines' = ReplaceLines(docLines, pending[1], pending[2], pending[3])
          /\ IF pcPatch = "fastEdit"
             THEN /\ pcPatch' = "fastSave"
                  /\ pending' = <<>>
                  /\ UNCHANGED <<hunkIdx, offset>>
             ELSE LET h == hunks[hunkIdx]
                      off == offset + (h.newLines - h.oldLines)
                      next == PrepareHunk(docLines', hunks, hunkIdx + 1, off)
                  IN /\ offset' = off
                     /\ hunkIdx' = hunkIdx + 1
                     /\ pcPatch' = next.pc
                     /\ pending' = next.edit
  /\ UNCHANGED <<origLines, diskLines, diffLines, snippet, hunks,
                 limVars, scanVars, enrVars, normVars,
                 postVars, enumVars, liveVars,
                 ignVars, authVars>>

\* await doc.save(): the result of the save is not looked at.
SaveReturns(ok) ==
  /\ pcPatch \in {"fastSave", "save"}
  /\ diskLines' = IF ok THEN docLines ELSE diskLines
  /\ pcPatch' = "true"
  /\ UNCHANGED <<origLines, docLines, diffLines, snippet, hunks, hunkIdx, offset,
                 pending, limVars, scanVars, enrVars, normVars,
                 postVars, enumVars, liveVars,
                 ignVars, authVars>>

NextPatch ==
  \/ PatchOpen
  \/ \E ok \in BOOLEAN : EditReturns(ok)
  \/ \E ok \in BOOLEAN : SaveReturns(ok)

SpecPatch == InitPatch /\ [][NextPatch]_vars

\* Hunk k lies inside the original text, has old lines, and these are the
\* lines of the text at its range.
HunkFits(k) ==
  LET h == hunks[k] IN
    /\ h.oldLines >= 1
    /\ h.oldStart >= 1
    /\ h.oldStart - 1 + h.oldLines <= Len(origLines)
    /\ TextWithout(h, "+") = SubSeq(origLines, h.oldStart, h.oldStart + h.oldLines - 1)

\* The lines before the range of h, its non-removed lines, the lines after.
Substituted(text, h) ==
  SubSeq(text, 1, h.oldStart - 1) \o TextWithout(h, "-")
    \o SubSeq(text, h.oldStart + h.oldLines, Len(text))

\* Every hunk up to the k-th substituted at its own line numbers of the
\* original text, the last one first.
RECURSIVE SubstitutedAll(_, _, _)
SubstitutedAll(text, hs, k) ==
  IF k = 0 THEN text
  ELSE SubstitutedAll(Substituted(text, hs[k]), hs, k - 1)

\* The sum of newLines - oldLines over the first k hunks.
RECURSIVE Shift(_, _)
Shift(hs, k) ==
  IF k = 0 THEN 0 ELSE Shift(hs, k - 1) + (hs[k].newLines - hs[k].oldLines)

\* The loop went through every hunk: the call is at its save or has returned
\* true after it.
PositionalDone ==
  /\ pcPatch \in {"save", "true"}
  /\ hunkIdx = Len(hunks) + 1

\* C11: when the call returns false, be it at the second or a later hunk, the
\* content of the file is what it was when the call started.
C11_NoPartialWrite ==
  pcPatch = "false" => docLines = origLines

\* C12: a single hunk whose range holds its removed and context lines, applied
\* by position, leaves the lines before the range, the hunk's non-removed lines
\* and the lines after the range.
C12_PositionalHunk ==
  (PositionalDone /\ Len(hunks) = 1 /\ HunkFits(1)) =>
    docLines = Substituted(origLines, hunks[1])

\* C13: with several hunks in ascending order that do not overlap, hunk i is
\* applied at oldStart - 1 + offset where offset sums newLines - oldLines of
\* the hunks before it, and the result is every hunk substituted at its own
\* line numbers of the original text.
C13_OffsetTracking ==
  (/\ Len(hunks) >= 2
   /\ \A k \in 1 .. Len(hunks) : HunkFits(k)
   /\ \A k \in 1 .. (Len(hunks) - 1) :
        hunks[k].oldStart + hunks[k].oldLines <= hunks[k + 1].oldStart) =>
    /\ pcPatch = "edit" =>
         /\ offset = Shift(hunks, hunkIdx - 1)
         /\ pending[1] = hunks[hunkIdx].oldStart - 1 + offset
         /\ pending[2] = pending[1] + hunks[hunkIdx].oldLines - 1
    /\ PositionalDone => docLines = SubstitutedAll(origLines, hunks, Len(hunks))

\* ---------------------------------------------------------------------------
\* normalize.ts: fromSemgrep in its two versions and mapSeverity. A string is
\* the sequence of its characters; a field that may be missing is <<>> or the
\* one-element sequence of its value.
\* ---------------------------------------------------------------------------

\* Line numbers of the raw records run from 1 to MaxLine.
MaxLine == 2

NormVersions == {"early", "late"}

Paths == {<<"a">>, <<"a", ":", "b">>}
RuleIds == {<<"c">>, <<"b", ":", "c">>}
Messages == {<<>>, <<"m">>, <<"n">>}
Cols == {1, 3}
Positions == {<<>>} \cup {<<<<l, c>>>> : l \in 1 .. MaxLine, c \in Cols}
SeverityLabels ==
  {<<>>,
   <<"C", "R", "I", "T", "I", "C", "A", "L">>,
   <<"h", "y", "p", "e", "r", "c", "r", "i", "t">>,
   <<"H", "I", "G", "H">>,
   <<"h">>,
   <<"M", "o", "d", "e", "r", "a", "t", "e">>,
   <<"L", "O", "W">>,
   <<"I", "N", "F", "O">>,
   <<"E", "R", "R", "O", "R">>,
   <<"W", "A", "R", "N", "I", "N", "G">>}
\* Where the record carries its label: r.severity, r.extra.severity (where
\* semgrep puts it) or r.extra.metadata.severity.
SeverityFields == {"severity", "extra.severity", "extra.metadata.severity"}

Upper == <<"A", "B", "C", "D", "E", "F", "G", "H", "I", "J", "K", "L", "M",
           "N", "O", "P", "Q", "R", "S", "T", "U", "V", "W", "X", "Y", "Z">>
LowerOf == <<"a", "b", "c", "d", "e", "f", "g", "h", "i", "j", "k", "l", "m",
             "n", "o", "p", "q", "r", "s", "t", "u", "v", "w", "x", "y", "z">>

\* String.prototype.toLowerCase
ToLowerCase(s) ==
  [k \in 1 .. Len(s) |->
     IF \E u \in 1 .. Len(Upper) : Upper[u] = s[k]
     THEN LowerOf[CHOOSE u \in 1 .. Len(Upper) : Upper[u] = s[k]]
     ELSE s[k]]

\* String.prototype.startsWith and includes
StartsWith(s, p) == Len(s) >= Len(p) /\ SubSeq(s, 1, Len(p)) = p
Includes(s, p) ==
  \E k \in 1 .. (Len(s) - Len(p) + 1) : SubSeq(s, k, k + Len(p) - 1) = p

\* The decimal digits of a line number in a template string.
RECURSIVE Decimal(_)
Decimal(n) ==
  IF n < 0 THEN <<"-">> \o Decimal(0 - n)
  ELSE IF n < 10 THEN <<ToString(n)>>
  ELSE Decimal(n \div 10) \o <<ToString(n % 10)>>

\* mapSeverity
MapSeverity(s) ==
  LET t == ToLowerCase(s) IN
    IF Includes(t, <<"c", "r", "i", "t">>) THEN "critical"
    ELSE IF StartsWith(t, <<"h">>) THEN "high"
    ELSE IF StartsWith(t, <<"m">>) THEN "medium"
    ELSE IF StartsWith(t, <<"l">>) THEN "low"
    ELSE "info"

\* a || b on strings: the empty string is falsy.
OrElse(a, b) == IF a # <<>> THEN a ELSE b

\* The label found in field f of record r, empty when it is elsewhere.
LabelAt(r, f) == IF r.sevAt = f THEN r.label ELSE <<>>

\* crypto.createHash('sha1').update(s).digest('hex'): distinct strings are
\* taken to have distinct digests.
Sha1(s) == <<"sha1", s>>

\* The string a sequence of characters spells, for the words the labels
\* of the model give.
Spelled(t) ==
  CASE t = <<"c", "r", "i", "t", "i", "c", "a", "l">> -> "critical"
    [] t = <<"h", "i", "g", "h">> -> "high"
    [] t = <<"m", "e", "d", "i", "u", "m">> -> "medium"
    [] t = <<"l", "o", "w">> -> "low"
    [] t = <<"i", "n", "f", "o">> -> "info"
    [] t = <<"e", "r", "r", "o", "r">> -> "error"
    [] t = <<"w", "a", "r", "n", "i", "n", "g">> -> "warning"
    [] t = <<"m", "o", "d", "e", "r", "a", "t", "e">> -> "moderate"
    [] t = <<"h", "y", "p", "e", "r", "c", "r", "i", "t">> -> "hypercrit"
    [] t = <<"h">> -> "h"
    [] OTHER -> "?"

\* normalize.ts:14-29. r.start.line of a record without start throws.
FromSemgrepEarly(r) ==
  IF r.start = <<>> \/ r.end = <<>> THEN [ok |-> FALSE]
  ELSE [ok |-> TRUE,
        ruleId |-> r.check_id,
        severity |-> Spelled(ToLowerCase(OrElse(LabelAt(r, "extra.severity"),
                                                <<"L", "O", "W">>))),
        file |-> r.path,
        startLine |-> r.start[1][1] - 1, startCol |-> r.start[1][2] - 1,
        endLine |-> r.end[1][1] - 1, endCol |-> r.end[1][2] - 1,
        message |-> IF r.hasMessage THEN r.message
                    ELSE <<"S", "e", "c", "u", "r", "i", "t", "y", " ",
                           "i", "s", "s", "u", "e">>,
        cwe |-> r.cwe,
        fingerprint |-> r.path \o <<":">> \o r.check_id \o <<":">>
                        \o Decimal(r.start[1][1]) \o <<":">> \o Decimal(r.start[1][2])]

\* normalize.ts:73-104
FromSemgrepLate(r) ==
  LET abs == r.path
      ruleId == OrElse(r.check_id, <<"u", "n", "k", "n", "o", "w", "n">>)
      sev == MapSeverity(OrElse(LabelAt(r, "severity"),
                           OrElse(LabelAt(r, "extra.metadata.severity"),
                                  <<"l", "o", "w">>)))
      msg == IF r.hasMessage THEN r.message ELSE <<>>
      startLine == (IF r.start # <<>> THEN r.start[1][1] ELSE 1) - 1
      startCol == (IF r.start # <<>> THEN r.start[1][2] ELSE 1) - 1
      endLine == (IF r.end # <<>> THEN r.end[1][1] ELSE startLine + 1) - 1
      endCol == (IF r.end # <<>> THEN r.end[1][2] ELSE 1) - 1
      fpRaw == abs \o <<":">> \o ruleId \o <<":">> \o Decimal(startLine + 1)
               \o <<":">> \o msg
  IN [ok |-> TRUE, ruleId |-> ruleId, severity |-> sev, file |-> abs,
      startLine |-> startLine, startCol |-> startCol,
      endLine |-> endLine, endCol |-> endCol,
      message |-> msg, cwe |-> r.cwe, fingerprint |-> Sha1(fpRaw)]

FromSemgrep(version, r) ==
  IF version = "early" THEN FromSemgrepEarly(r) ELSE FromSemgrepLate(r)

\* A message field is there or not; an empty message that is there is not
\* told apart from a missing one by the later version.
RawRecords(labels, fields, ends, cwes) ==
  {[path |-> p, check_id |-> c, start |-> s, end |-> e,
    hasMessage |-> m # <<>>, message |-> m, cwe |-> w, sevAt |-> f, label |-> l] :
     p \in Paths, c \in RuleIds, s \in Positions, e \in ends, m \in Messages,
     w \in cwes, f \in fields, l \in labels}

\* One record with every field drawn.
InitNormalize ==
  /\ normVersion \in NormVersions
  /\ raw1 \in RawRecords(SeverityLabels, SeverityFields, Positions, {<<>>, <<"x">>})
  /\ raw2 = NoRaw
  /\ out1 = NoFinding
  /\ out2 = NoFinding
  /\ normDone = FALSE
  /\ LimiterIdle /\ ScanIdle /\ EnrichIdle /\ PatchIdle /\ PostIdle /\ EnumIdle /\ LiveIdle
  /\ IgnoreIdle /\ AuthIdle

\* Two records that differ in the fields the fingerprint may depend on and
\* in some it may not.
InitFingerprint ==
  /\ normVersion \in NormVersions
  /\ raw1 \in RawRecords({<<"H", "I", "G", "H">>}, {"severity"},
                         {<<<<MaxLine, 3>>>>}, {<<>>})
  /\ raw2 \in RawRecords({<<"H", "I", "G", "H">>}, {"severity"},
                         {<<>>, <<<<MaxLine, 1>>>>}, {<<"x">>})
  /\ out1 = NoFinding
  /\ out2 = NoFinding
  /\ normDone = FALSE
  /\ LimiterIdle /\ ScanIdle /\ EnrichIdle /\ PatchIdle /\ PostIdle /\ EnumIdle /\ LiveIdle
  /\ IgnoreIdle /\ AuthIdle

\* findingsRaw.map(fromSemgrep) on the records.
Normalize ==
  /\ ~normDone
  /\ normDone' = TRUE
  /\ out1' = FromSemgrep(normVersion, raw1)
  /\ out2' = IF raw2 = NoRaw THEN NoFinding ELSE FromSemgrep(normVersion, raw2)
  /\ UNCHANGED <<normVersion, raw1, raw2, limVars, scanVars, enrVars, patchVars,
                 postVars, enumVars, liveVars,
                 ignVars, authVars>>

NextNormalize == Normalize

SpecNormalize == InitNormalize /\ [][NextNormalize]_vars

SpecFingerprint == InitFingerprint /\ [][NextNormalize]_vars

SeverityEnum == {"info", "low", "medium", "high", "critical"}

\* The four fields of a Finding the fingerprint is said to be made of.
FingerprintKey(f) == <<f.file, f.ruleId, f.startLine, f.message>>

\* The number of places in which two keys differ.
KeyDistance(f, g) ==
  Cardinality({k \in 1 .. 4 : FingerprintKey(f)[k] # FingerprintKey(g)[k]})

\* C14: two records whose findings agree on file, rule id, start line and
\* message get the same fingerprint whatever else differs, and two that differ
\* in exactly one of the four get different fingerprints.
C14_FingerprintDeterminism ==
  (normDone /\ out1.ok /\ out2.ok) =>
    /\ KeyDistance(out1, out2) = 0 => out1.fingerprint = out2.fingerprint
    /\ KeyDistance(out1, out2) = 1 => out1.fingerprint # out2.fingerprint

\* The label fromSemgrep reads: the later version looks at r.severity and
\* r.extra.metadata.severity, the earlier one at r.extra.severity.
RawLabel(r) == r.label

\* C17: the severity of a finding is critical when the lower-cased raw label
\* contains "crit", else high, medium or low when it starts with h, m or l,
\* else info; it is always one of the five values.
C17_SeverityMapping ==
  (normDone /\ out1.ok /\ RawLabel(raw1) # <<>>) =>
    LET t == ToLowerCase(RawLabel(raw1)) IN
      /\ out1.severity \in SeverityEnum
      /\ out1.severity =
           (IF \E k \in 1 .. (Len(t) - 3) : SubSeq(t, k, k + 3) = <<"c", "r", "i", "t">>
            THEN "critical"
            ELSE IF t # <<>> /\ t[1] = "h" THEN "high"
            ELSE IF t # <<>> /\ t[1] = "m" THEN "medium"
            ELSE IF t # <<>> /\ t[1] = "l" THEN "low"
            ELSE "info")

\* C18: start line, start col, end line and end col of a finding are the raw
\* values minus 1; without a raw end position the end line is one line past
\* the start line.
C18_ZeroBasedRange ==
  (normDone /\ out1.ok) =>
    /\ raw1.start # <<>> =>
         /\ out1.startLine = raw1.start[1][1] - 1
         /\ out1.startCol = raw1.start[1][2] - 1
    /\ raw1.end # <<>> =>
         /\ out1.endLine = raw1.end[1][1] - 1
         /\ out1.endCol = raw1.end[1][2] - 1
    /\ raw1.end = <<>> => out1.endLine = out1.startLine + 1

\* ---------------------------------------------------------------------------
\* After the batch loop: normalize, filter by minimum severity, publish.
\* ---------------------------------------------------------------------------

\* The records the scanner returned over all batches.
MaxResults == 3

\* The three snapshots of the scan command: sec.scan with its settings,
\* scanWorkspaceAndUpload, and the sec.scan with constants. Only the first
\* reads a minimum severity.
PostVersions == {"secScan", "scanWorkspaceAndUpload", "secScanConstants"}

\* const SEV_RANK = { info: 0, low: 1, medium: 2, high: 3, critical: 4 }
SevRank(s) ==
  CASE s = "info" -> 0 [] s = "low" -> 1 [] s = "medium" -> 2
    [] s = "high" -> 3 [] s = "critical" -> 4

SeverityFilterStrict(fs, t) == SelectSeq(fs, LAMBDA f : SevRank(f.severity) > SevRank(t))

\* mapped.filter(f => SEV_RANK[f.severity] >= SEV_RANK[minSeverity])
SeverityFilter(fs, t) == SelectSeq(fs, LAMBDA f : SevRank(f.severity) >= SevRank(t))

\* findingsRaw.map(fromSemgrep)
MapFindings(rs) == [k \in 1 .. Len(rs) |-> FromSemgrepLate(rs[k])]

\* The records of one file and line: two rules, one label of each severity.
ResultPool ==
  {[path |-> <<"a">>, check_id |-> c, start |-> <<<<1, 1>>>>, end |-> <<<<1, 3>>>>,
    hasMessage |-> TRUE, message |-> <<"m">>, cwe |-> <<>>,
    sevAt |-> "severity", label |-> l] :
     c \in RuleIds,
     l \in {<<"C", "R", "I", "T", "I", "C", "A", "L">>, <<"H", "I", "G", "H">>,
            <<"M", "o", "d", "e", "r", "a", "t", "e">>, <<"L", "O", "W">>,
            <<"I", "N", "F", "O">>}}

InitPost ==
  /\ postVersion \in PostVersions
  /\ minSeverity \in IF postVersion = "secScan" THEN SeverityEnum ELSE {"none"}
  /\ rawResults \in UNION {[1 .. n -> ResultPool] : n \in 0 .. MaxResults}
  /\ pcPost = "loopDone"
  /\ findingList = <<>>
  /\ diagnostics = <<"none">>
  /\ LimiterIdle /\ ScanIdle /\ EnrichIdle /\ PatchIdle /\ NormIdle /\ EnumIdle /\ LiveIdle
  /\ IgnoreIdle /\ AuthIdle

\* const mapped = findingsRaw.map(fromSemgrep);
\* const findings = mapped.filter(...)      -- sec.scan with settings only
NormalizeAndFilter ==
  /\ pcPost = "loopDone"
  /\ findingList' = IF postVersion = "secScan"
                    THEN SeverityFilter(MapFindings(rawResults), minSeverity)
                    ELSE MapFindings(rawResults)
  /\ pcPost' = "mapped"
  /\ UNCHANGED <<postVersion, minSeverity, rawResults, diagnostics,
                 limVars, scanVars, enrVars, patchVars, normVars, enumVars, liveVars,
                 ignVars, authVars>>

\* publishFindings(findings): the diagnostics are replaced by one per finding.
\* The same list goes on to enrichment or upload.
Publish ==
  /\ pcPost = "mapped"
  /\ diagnostics' = findingList
  /\ pcPost' = "published"
  /\ UNCHANGED <<postVersion, minSeverity, rawResults, findingList,
                 limVars, scanVars, enrVars, patchVars, normVars, enumVars, liveVars,
                 ignVars, authVars>>

NextPost == NormalizeAndFilter \/ Publish

SpecPost == InitPost /\ [][NextPost]_vars

\* The findings of the run, whatever their severity.
AllMapped == MapFindings(rawResults)

\* The places of list fs held by a finding equal to f.
PlacesOf(fs, f) == {k \in 1 .. Len(fs) : fs[k] = f}

C19_Deduplicated ==
  pcPost = "published" =>
    \A j, k \in 1 .. Len(diagnostics) :
      diagnostics[j].fingerprint = diagnostics[k].fingerprint => j = k

\* C16: the item list handed to the report is sorted by relative file path
\* ascending and, within one path, by severity rank descending, whatever the
\* order in which the enrichment tasks completed.
C16_SortedForConsumers ==
  pc = "done" =>
    \A j, k \in 1 .. Len(report) :
      j < k =>
        \/ report[j].relFile < report[k].relFile
        \/ report[j].relFile = report[k].relFile /\ report[j].sev >= report[k].sev

\* ---------------------------------------------------------------------------
\* enumerateFiles: the recursive walk with excludes.
\* ---------------------------------------------------------------------------

\* Directories below the root.
MaxDirs == 3

\* The names a directory below the root can have, in readdir's order, and the
\* one name of defaultExcludes() among them.
DirNames == <<"keep", "node_modules">>
Excludes == {"node_modules"}

NameIndex(n) == CHOOSE k \in 1 .. Len(DirNames) : DirNames[k] = n

\* A tree is the sequence of its directories, the root first; a directory
\* names its parent, can be read or not, and holds the file a.py or not
\* (every directory below the root holds one).
RECURSIVE PathOf(_, _)
PathOf(t, d) == IF d = 1 THEN <<>> ELSE Append(PathOf(t, t[d].parent), t[d].name)

\* The shapes of a tree of n directories below the root: the parent and the
\* name of each, parents before children and siblings in readdir's order,
\* so that a tree is listed once.
Shapes(n) ==
  {sh \in [parent : [2 .. (n + 1) -> 1 .. n], name : [2 .. (n + 1) -> 1 .. Len(DirNames)]] :
     /\ \A d \in 2 .. (n + 1) : sh.parent[d] < d
     /\ \A d \in 3 .. (n + 1) :
          \/ sh.parent[d - 1] < sh.parent[d]
          \/ /\ sh.parent[d - 1] = sh.parent[d]
             /\ sh.name[d - 1] < sh.name[d]}

TreesOf(n) ==
  {[d \in 1 .. (n + 1) |->
      [parent |-> IF d = 1 THEN 0 ELSE sh.parent[d],
       name |-> IF d = 1 THEN "root" ELSE DirNames[sh.name[d]],
       readable |-> r[d],
       hasFile |-> f[d]]] :
     sh \in Shapes(n), r \in [1 .. (n + 1) -> BOOLEAN],
     f \in {g \in [1 .. (n + 1) -> BOOLEAN] : \A d \in 2 .. (n + 1) : g[d]}}

Trees == UNION {TreesOf(n) : n \in 0 .. MaxDirs}

\* fsp.readdir(dir, { withFileTypes: true }): the file, then the directories.
Entries(t, d) ==
  (IF t[d].hasFile THEN <<[isDirectory |-> FALSE, dir |-> d]>> ELSE <<>>)
  \o SelectSeq([c \in 1 .. Len(t) |-> [isDirectory |-> TRUE, dir |-> c]],
               LAMBDA e : t[e.dir].parent = d)

\* path.join(dir, ent.name) of the file of directory d
FilePath(t, d) == Append(PathOf(t, d), "a.py")

NeverSkipped(p) == FALSE

\* skipWithinRoot.has(p), skipWithinRoot the set of path.resolve(root, e)
IsSkipped(p) == \E e \in Excludes : p = <<e>>

\* The walk from a resumption to its next readdir. A frame is a directory
\* and the entry its loop is at, 0 while its readdir is awaited; a walk that
\* returns gives control to the loop of its parent.
RECURSIVE RunWalk(_, _, _, _)
RunWalk(t, stack, files, tok) ==
  IF stack = <<>> THEN [stack |-> stack, files |-> files]
  ELSE LET top == stack[Len(stack)]
           rest == SubSeq(stack, 1, Len(stack) - 1)
           ents == Entries(t, top.dir)
       IN IF top.pos > Len(ents) \/ tok
          THEN RunWalk(t, rest, files, tok)
          ELSE LET ent == ents[top.pos]
                   stepped == Append(rest, [dir |-> top.dir, pos |-> top.pos + 1])
               IN IF ~ent.isDirectory
                  THEN RunWalk(t, stepped, Append(files, FilePath(t, top.dir)), tok)
                  ELSE IF IsSkipped(PathOf(t, ent.dir))
                  THEN RunWalk(t, stepped, files, tok)
                  ELSE [stack |-> Append(stepped, [dir |-> ent.dir, pos |-> 0]),
                        files |-> files]

InitEnum ==
  /\ tree \in Trees
  /\ enumStack = <<>>
  /\ enumFiles = <<>>
  /\ enumToken = FALSE
  /\ pcEnum = "idle"
  /\ LimiterIdle /\ ScanIdle /\ EnrichIdle /\ PatchIdle /\ NormIdle /\ PostIdle /\ LiveIdle
  /\ IgnoreIdle /\ AuthIdle

\* await walk(root): the token is looked at, then readdir(root) is awaited.
EnumStart ==
  /\ pcEnum = "idle"
  /\ IF enumToken
     THEN pcEnum' = "returned" /\ UNCHANGED enumStack
     ELSE pcEnum' = "walking" /\ enumStack' = <<[dir |-> 1, pos |-> 0]>>
  /\ UNCHANGED <<tree, enumFiles, enumToken, limVars, scanVars, enrVars,
                 patchVars, normVars, postVars, liveVars,
                 ignVars, authVars>>

\* The awaited readdir settles: a failure returns from this walk, a listing
\* starts the loop over the entries; the walk runs on to the next readdir or
\* to the return of enumerateFiles.
ReadDirSettles ==
  /\ pcEnum = "walking"
  /\ LET top == enumStack[Len(enumStack)]
         rest == SubSeq(enumStack, 1, Len(enumStack) - 1)
         resumed == IF tree[top.dir].readable
                    THEN Append(rest, [dir |-> top.dir, pos |-> 1])
                    ELSE rest
         after == RunWalk(tree, resumed, enumFiles, enumToken)
     IN /\ enumStack' = after.stack
        /\ enumFiles' = after.files
        /\ pcEnum' = IF after.stack = <<>> THEN "returned" ELSE "walking"
  /\ UNCHANGED <<tree, enumToken, limVars, scanVars, enrVars, patchVars,
                 normVars, postVars, liveVars,
                 ignVars, authVars>>

\* The user cancels while the files are enumerated.
EnumCancel ==
  /\ pcEnum \in {"idle", "walking"}
  /\ ~enumToken
  /\ enumToken' = TRUE
  /\ UNCHANGED <<tree, enumStack, enumFiles, pcEnum, limVars, scanVars, enrVars,
                 patchVars, normVars, postVars, liveVars,
                 ignVars, authVars>>

NextEnum == EnumStart \/ ReadDirSettles \/ EnumCancel

SpecEnum == InitEnum /\ [][NextEnum]_vars

\* Directory d and every directory above it can be read, and none of them
\* below the root has a path that is an exclude entry resolved against root.
RECURSIVE Walkable(_, _)
Walkable(t, d) ==
  /\ t[d].readable
  /\ d # 1 => /\ PathOf(t, d) \notin {<<e>> : e \in Excludes}
              /\ Walkable(t, t[d].parent)

\* The files under root that are in no excluded and no unreadable directory.
ExpectedFiles(t) == {FilePath(t, d) : d \in {c \in 1 .. Len(t) : t[c].hasFile /\ Walkable(t, c)}}

C22_CancelledEnrichmentKeepsWork ==
  (pc = "cancelled" /\ cancelAt.phase = "enriching") =>
    /\ report # <<"none">>
    /\ \A k \in 1 .. Len(reportItems) :
         \E j \in 1 .. Len(report) : report[j] = reportItems[k]

\* ---------------------------------------------------------------------------
\* A scanner failure after completed batches
\* ---------------------------------------------------------------------------

\* C23: when runSemgrepOnFiles fails on batch k, the records of the batches
\* 1 .. k-1 are published as the partial result of the run.
C23_PartialResultsOnFailure ==
  (pc = "failed" /\ findingsRaw # <<>>) =>
    published = findingsRaw

\* ---------------------------------------------------------------------------
\* Binary resolution
\* ---------------------------------------------------------------------------

\* A scan process of a version that probes its candidates.
ScanProcs == {p \in procs : p.rules # "version"}

\* C24: without a configured binary, a scan runs the candidate whose
\* --version probe was the first to succeed, and when every probe has failed
\* the run fails with no scan process started; with a configured binary, the
\* scan runs that binary and nothing is probed.
C24_BinaryResolution ==
  adapter \in {"probe", "retry"} =>
    /\ explicitBin =>
         /\ \A p \in procs : p.bin = ConfiguredBin
         /\ \A k \in 1 .. Len(invocations) : invocations[k][3] # "version"
    /\ ~explicitBin =>
         /\ \A p \in procs : p.rules = "cfg" =>
              /\ lastDelivered.rules = "version"
              /\ lastDelivered.batch = p.batch
              /\ lastDelivered.bin = p.bin
              /\ ~lastDelivered.err
         /\ (/\ lastDelivered.rules = "version"
             /\ lastDelivered.err
             /\ \A p \in procs : p.rules # "version") =>
              /\ pc = "failed"
              /\ ScanProcs = {}

\* ---------------------------------------------------------------------------
\* Termination of a scanner invocation
\* ---------------------------------------------------------------------------

\* C25: every call of runSemgrepOnFiles comes back: a process that has not
\* exited when the timeout elapses is terminated, so the await of the batch
\* loop always ends.
C25_InvocationTerminates == (pc = "await") ~> (pc # "await")

\* ---------------------------------------------------------------------------
\* A diff that no longer matches the file
\* ---------------------------------------------------------------------------

\* C26: when the lines of the file at the range of a hunk applied by position
\* are blank or are not the hunk's removed and context lines, the call
\* returns false and neither the document nor the file is changed.
C26_StaleHunkRejected ==
  (/\ pcPatch # "idle"
   /\ snippet = "none"
   /\ Len(hunks) >= 1
   /\ ~HunkFits(1)) =>
    /\ pcPatch = "false"
    /\ docLines = origLines
    /\ diskLines = origLines

\* ---------------------------------------------------------------------------
\* extractHunks as a function of the diff text
\* ---------------------------------------------------------------------------

\* Lines of a diff.
MaxDiffLen == 4

\* The lines a diff is made of: the headers `@@ -1 +2 @@` and
\* `@@ -3,0 +4,2 @@ f()`, a line that starts with "@@" and is no header
\* (`@@ ... @@`), an added, a removed and a context line, and
\* `\ No newline at end of file`.
DiffLinePool ==
  <<[kind |-> "@@", oldStart |-> 1, oldLines |-> <<>>, newStart |-> 2, newLines |-> <<>>],
    [kind |-> "@@", oldStart |-> 3, oldLines |-> <<0>>, newStart |-> 4, newLines |-> <<2>>],
    [kind |-> "@@x", txt |-> 0],
    [kind |-> "+", txt |-> 1],
    [kind |-> "-", txt |-> 2],
    [kind |-> " ", txt |-> 3],
    [kind |-> "other", txt |-> 4]>>

InitExtract ==
  /\ \E n \in 0 .. MaxDiffLen :
       \E pick \in [1 .. n -> 1 .. Len(DiffLinePool)] :
         diffLines = [j \in 1 .. n |-> DiffLinePool[pick[j]]]
  /\ pcPatch = "idle"
  /\ origLines = <<>>
  /\ docLines = <<>>
  /\ diskLines = <<>>
  /\ snippet = "none"
  /\ hunks = <<>>
  /\ hunkIdx = 0
  /\ offset = 0
  /\ pending = <<>>
  /\ LimiterIdle /\ ScanIdle /\ EnrichIdle /\ NormIdle /\ PostIdle /\ EnumIdle /\ LiveIdle
  /\ IgnoreIdle /\ AuthIdle

\* const hunks = extractHunks(diff)
Extract ==
  /\ pcPatch = "idle"
  /\ hunks' = ExtractHunks(diffLines)
  /\ pcPatch' = "extracted"
  /\ UNCHANGED <<origLines, docLines, diskLines, diffLines, snippet, hunkIdx,
                 offset, pending, limVars, scanVars, enrVars, normVars, postVars,
                 enumVars, liveVars,
                 ignVars, authVars>>

NextExtract == Extract

SpecExtract == InitExtract /\ [][NextExtract]_vars

\* The positions of the header lines of d, and the j-th of them.
HeadersOf(d) == {k \in 1 .. Len(d) : d[k].kind = "@@"}
NthHeader(d, j) ==
  CHOOSE p \in HeadersOf(d) : Cardinality({q \in HeadersOf(d) : q < p}) = j - 1

\* The first line after p whose kind is in stops, the line after the last
\* one if there is none.
BodyEnd(d, p, stops) ==
  LET at == {q \in (p + 1) .. Len(d) : d[q].kind \in stops}
  IN IF at = {} THEN Len(d) + 1 ELSE CHOOSE q \in at : \A q2 \in at : q <= q2

\* One hunk per header, in order; a missing count is 1; the lines are the
\* '+', '-' and ' ' lines between the header and the next stop.
HunksUpTo(d, stops) ==
  [j \in 1 .. Cardinality(HeadersOf(d)) |->
     LET p == NthHeader(d, j)
         body == SelectSeq(SubSeq(d, p + 1, BodyEnd(d, p, stops) - 1),
                           LAMBDA l : l.kind \in {"+", "-", " "})
     IN [oldStart |-> d[p].oldStart,
         oldLines |-> IF d[p].oldLines = <<>> THEN 1 ELSE d[p].oldLines[1],
         newStart |-> d[p].newStart,
         newLines |-> IF d[p].newLines = <<>> THEN 1 ELSE d[p].newLines[1],
         lines |-> [k \in 1 .. Len(body) |-> [kind |-> body[k].kind, txt |-> body[k].txt]]]]

\* C27 as stated: extractHunks returns one hunk per header line, in order,
\* with the header's numbers and 1 for a missing count; the lines of a hunk
\* are the '+', '-' and ' ' lines that follow up to the next header, without
\* their first character, and no other line.
C27_LinesUpToNextHeader ==
  pcPatch = "extracted" => hunks = HunksUpTo(diffLines, {"@@"})

\* C27, amended: the same, the lines of a hunk being those up to the next
\* line that starts with "@@", whether that line is a header or not.
C27_LinesUpToNextAtAt ==
  pcPatch = "extracted" => hunks = HunksUpTo(diffLines, {"@@", "@@x"})

\* Two hunks were extracted, the first from a header without counts, with a
\* line that is neither added, removed nor context between them.
C27_Witness ==
  /\ pcPatch = "extracted"
  /\ Len(hunks) = 2
  /\ diffLines[1].kind = "@@" /\ diffLines[1].oldLines = <<>>
  /\ hunks[1].oldLines = 1 /\ hunks[1].newLines = 1
  /\ Len(hunks[1].lines) = 1
  /\ diffLines[3].kind = "other"
  /\ hunks[2].oldLines = 0

\* ---------------------------------------------------------------------------
\* LiveScanner: scans on save, debounced by one timer for all files.
\* The findings of a file are stood for by the number of the save whose
\* content semgrep read.
\* ---------------------------------------------------------------------------

\* Saves in a run.
MaxSaves == 3

LiveVersions == {"cache", "direct"}

\* The findings a workspace scan published for a file before any save.
FromWorkspaceScan == -1

InitLive ==
  /\ liveVersion \in LiveVersions
  /\ lastSave = [f \in LiveFiles |-> 0]
  /\ nSaves = 0
  /\ liveTimer = NoTimer
  /\ liveScans = {}
  /\ cache = [f \in LiveFiles |-> 0]
  /\ liveDiag \in [LiveFiles -> {0, FromWorkspaceScan}]
  /\ scanned = [f \in LiveFiles |-> {}]
  /\ LimiterIdle /\ ScanIdle /\ EnrichIdle /\ PatchIdle /\ NormIdle /\ PostIdle
  /\ EnumIdle /\ IgnoreIdle /\ AuthIdle

\* onDidSaveTextDocument: the file is written, then
\*   if (this.last) clearTimeout(this.last); this.last = setTimeout(fn, ms)
\* replaces whatever callback was pending, of this file or another.
Save(f) ==
  /\ nSaves < MaxSaves
  /\ nSaves' = nSaves + 1
  /\ lastSave' = [lastSave EXCEPT ![f] = nSaves + 1]
  /\ liveTimer' = [file |-> f, save |-> nSaves + 1]
  /\ UNCHANGED <<liveVersion, liveScans, cache, liveDiag, scanned, limVars,
                 scanVars, enrVars, patchVars, normVars, postVars, enumVars,
                 ignVars, authVars>>

\* The timer fires: the callback calls runSemgrepOnFiles([fsPath], ...) and
\* awaits it; semgrep reads the file as it is on disk now.
TimerFires ==
  /\ liveTimer # NoTimer
  /\ liveScans' = liveScans \cup
       {[file |-> liveTimer.file, save |-> liveTimer.save,
         read |-> lastSave[liveTimer.file]]}
  /\ liveTimer' = NoTimer
  /\ UNCHANGED <<liveVersion, lastSave, nSaves, cache, liveDiag, scanned, limVars,
                 scanVars, enrVars, patchVars, normVars, postVars, enumVars,
                 ignVars, authVars>>

\* publishFindings(findings): collection.clear(); collection.set(entries)
PublishedFrom(byFile) == byFile

\* runSemgrepOnFiles returns or throws.
\*  cache:  this.cache.set(fsPath, fnds); this.pushAll(), which publishes the
\*          findings of every cache entry;
\*  direct: clearDiagnostics(path); publishFindings(findings), the findings
\*          of this file only;
\*  both:   catch: nothing is changed.
LiveScanSettles(sc, ok) ==
  /\ sc \in liveScans
  /\ liveScans' = liveScans \ {sc}
  /\ IF ~ok
     THEN UNCHANGED <<cache, liveDiag, scanned>>
     ELSE /\ scanned' = [scanned EXCEPT ![sc.file] = @ \cup {sc.save}]
          /\ IF liveVersion = "cache"
             THEN /\ cache' = [cache EXCEPT ![sc.file] = sc.read]
                  /\ liveDiag' = PublishedFrom(cache')
             ELSE /\ UNCHANGED cache
                  /\ liveDiag' = PublishedFrom(
                       [f \in LiveFiles |-> IF f = sc.file THEN sc.read ELSE 0])
  /\ UNCHANGED <<liveVersion, lastSave, nSaves, liveTimer, limVars, scanVars,
                 enrVars, patchVars, normVars, postVars, enumVars,
                 ignVars, authVars>>

NextLive ==
  \/ \E f \in LiveFiles : Save(f)
  \/ TimerFires
  \/ \E sc \in liveScans, ok \in BOOLEAN : LiveScanSettles(sc, ok)

SpecLive == InitLive /\ [][NextLive]_vars

\* No callback is pending and no scan is running.
LiveQuiet == liveTimer = NoTimer /\ liveScans = {}

\* C28: once every triggered scan has completed, the cache entry of a file
\* whose most recent save was scanned holds the findings of that save: an
\* earlier scan that ends later does not overwrite them.
C28_LastWriteWins ==
  (liveVersion = "cache" /\ LiveQuiet) =>
    \A f \in LiveFiles :
      (lastSave[f] > 0 /\ lastSave[f] \in scanned[f]) => cache[f] = lastSave[f]

\* ---------------------------------------------------------------------------
\* The ignored fingerprints of the security report
\* ---------------------------------------------------------------------------

\* toggleIgnore messages in a run, and items of a report.
MaxToggles == 4
MaxItems == 2

\* new Set(arr)
SetOf(arr) == {arr[k] : k \in 1 .. Len(arr)}

\* [...s] of the set made from arr: the distinct elements in the order of
\* their first occurrence.
RECURSIVE Distinct(_)
Distinct(arr) ==
  IF arr = <<>> THEN <<>>
  ELSE LET front == Distinct(SubSeq(arr, 1, Len(arr) - 1))
           x == arr[Len(arr)]
       IN IF x \in SetOf(front) THEN front ELSE Append(front, x)

ToggledAddOnly(arr, fp) == Append(Distinct(arr), fp)

\* const s = new Set(arr); if (s.has(fp)) s.delete(fp); else s.add(fp); [...s]
Toggled(arr, fp) ==
  IF fp \in SetOf(arr)
  THEN SelectSeq(Distinct(arr), LAMBDA x : x # fp)
  ELSE Append(Distinct(arr), fp)

\* items.filter(i => !ignored.has(i.fingerprint))
Visible(items, arr) == SelectSeq(items, LAMBDA x : x \notin SetOf(arr))

InitIgnore ==
  /\ IgnoreIdle
  /\ LimiterIdle /\ ScanIdle /\ EnrichIdle /\ PatchIdle /\ NormIdle /\ PostIdle
  /\ EnumIdle /\ LiveIdle /\ AuthIdle

\* openSecurityReport(ctx, workspaceRoot, items) after a scan or a rescan.
OpenReport(items) ==
  /\ panelItems' = items
  /\ visibleItems' = Visible(items, ignoredKey)
  /\ shown' = shown \cup SetOf(visibleItems')
  /\ pcReport' = "opened"
  /\ UNCHANGED <<ignoredKey, toggles, nToggles, limVars, scanVars, enrVars,
                 patchVars, normVars, postVars, enumVars, liveVars,
                 authVars>>

\* The toggleIgnore message of a card of a report opened so far, the last one
\* or an earlier one: the stored array is read, toggled and written back
\* before the handler's first await.
ToggleIgnore(fp) ==
  /\ pcReport # "none"
  /\ fp \in shown
  /\ nToggles < MaxToggles
  /\ ignoredKey' = Toggled(ignoredKey, fp)
  /\ toggles' = [toggles EXCEPT ![fp] = @ + 1]
  /\ nToggles' = nToggles + 1
  /\ pcReport' = "toggled"
  /\ UNCHANGED <<panelItems, visibleItems, shown, limVars, scanVars, enrVars, patchVars,
                 normVars, postVars, enumVars, liveVars,
                 authVars>>

NextIgnore ==
  \/ \E items \in UNION {[1 .. n -> Fingerprints] : n \in 0 .. MaxItems} :
       OpenReport(items)
  \/ \E fp \in Fingerprints : ToggleIgnore(fp)

SpecIgnore == InitIgnore /\ [][NextIgnore]_vars

\* C29: a fingerprint is ignored exactly when it was toggled an odd number of
\* times, whatever was toggled besides it, and a report opened since shows
\* the items whose fingerprint is not ignored, in their order.
C29_IgnorePersists ==
  /\ \A fp \in Fingerprints : fp \in SetOf(ignoredKey) <=> toggles[fp] % 2 = 1
  /\ pcReport = "opened" =>
       visibleItems = SelectSeq(panelItems, LAMBDA x : toggles[x] % 2 = 0)

\* One fingerprint was toggled twice and another once; the report opened
\* after that shows the first and hides the second.
C29_Witness ==
  /\ pcReport = "opened"
  /\ toggles["fpA"] = 2
  /\ toggles["fpB"] = 1
  /\ panelItems = <<"fpA", "fpB">>
  /\ visibleItems = <<"fpA">>

\* A record as the scanner's JSON contract lays it out: path, check_id, start
\* and end are there, and the label, when there is one, is extra.severity.
FollowsContract(r) ==
  /\ r.start # <<>> /\ r.end # <<>>
  /\ r.check_id # <<>> /\ r.path # <<>>
  /\ r.sevAt = "extra.severity"

\* C30: the severity of the finding of a record that follows the contract is
\* the mapping of its extra.severity label, and the default, low, only when
\* the record has no label.
C30_SeverityFromExtra ==
  (normDone /\ out1.ok /\ FollowsContract(raw1)) =>
    out1.severity =
      (IF raw1.label # <<>> THEN MapSeverity(raw1.label) ELSE "low")

\* ---------------------------------------------------------------------------
\* The fast path of the patch engine
\* ---------------------------------------------------------------------------

\* The call went through the fast path: its edit is awaited, its save is
\* awaited, or it has returned after them.
FastPathTaken == pcPatch \in {"fastEdit", "fastSave", "true", "false"} /\ hunkIdx = 0

\* text with the block of lines at p replaced by the lines of added.
ReplacedAt(text, p, original, added) ==
  SubSeq(text, 1, p - 1) \o AsLines(added)
    \o SubSeq(text, p + Len(original), Len(text))

\* C31: the fast path is taken only for a diff of one hunk whose removed and
\* context lines are found in the text; when it succeeds the text is the old
\* text with one occurrence of these lines replaced by the hunk's added and
\* context lines, and nothing else is changed.
C31_FastPathReplacesOnce ==
  (pcPatch # "idle" /\ FastPathTaken) =>
    /\ Len(hunks) = 1
    /\ IndexOfBlock(origLines, TextWithout(hunks[1], "+")) > 0
    /\ (pcPatch \in {"fastSave", "true"}) =>
         \E p \in 1 .. Len(origLines) :
           /\ SubSeq(origLines, p, p + Len(TextWithout(hunks[1], "+")) - 1)
                = TextWithout(hunks[1], "+")
           /\ docLines = ReplacedAt(origLines, p, TextWithout(hunks[1], "+"),
                                    TextWithout(hunks[1], "-"))

\* ---------------------------------------------------------------------------
\* The completed count reported after a batch
\* ---------------------------------------------------------------------------

\* The count the last report after a batch gave:
\*  sec.scan: `scanned ${done}/${total} files`;
\*  scanWorkspaceAndUpload: Math.min(i + batchSize, files.length), with the
\*  i of the batch, which the loop has since raised by batchSize.
Completed == IF Cancellable THEN done ELSE Min(batchI, total)

\* The files of the first k batches handed out.
RECURSIVE FilesIn(_)
FilesIn(k) ==
  IF k = 0 THEN 0
  ELSE FilesIn(k - 1) + (dispatched[k].hi - dispatched[k].lo)

\* C32: the completed count reported after a batch is the number of files of
\* the batches processed so far; it never exceeds total, it never goes down,
\* and it is total when the run finishes without cancellation or error.
C32_CompletedCount ==
  /\ [](/\ Completed = FilesIn(Len(returned))
        /\ Completed <= total
        /\ (pc = "done" /\ ~token) => Completed = total)
  /\ [][Completed' >= Completed]_vars

\* A run of three batches, the last of one file, has finished.
C32_Witness ==
  /\ pc = "done"
  /\ ~token
  /\ Len(returned) = 3
  /\ done = total
  /\ total = 2 * BatchSize + 1

\* ---------------------------------------------------------------------------
\* Saves of different files within one debounce window
\* ---------------------------------------------------------------------------

\* The live scanner with a scanner that answers every call.
NextLiveAnswered ==
  \/ \E f \in LiveFiles : Save(f)
  \/ TimerFires
  \/ \E sc \in liveScans : LiveScanSettles(sc, TRUE)

\* A timer that is not cleared fires, and a scan that was started returns.
FairSpecLive ==
  /\ InitLive
  /\ [][NextLiveAnswered]_vars
  /\ WF_vars(TimerFires)
  /\ WF_vars(\E sc \in liveScans : LiveScanSettles(sc, TRUE))

\* C33: a file that was saved is scanned in the end and its results are
\* published, also when a save of another file follows within the debounce
\* window.
C33_EverySavedFileScanned ==
  \A f \in LiveFiles : (lastSave[f] > 0) ~> (scanned[f] # {})

\* ---------------------------------------------------------------------------
\* What a live scan publishes
\* ---------------------------------------------------------------------------

\* C34: the published diagnostics of a file change only when a live scan of
\* that file publishes its results: what a workspace scan or a live scan
\* published for the other files stays as it is.
C34_LiveScanFrame ==
  [][\A g \in LiveFiles :
       liveDiag'[g] # liveDiag[g] =>
         \E sc \in liveScans : sc.file = g /\ sc \notin liveScans']_vars

\* ---------------------------------------------------------------------------
\* Cancellation during the file enumeration
\* ---------------------------------------------------------------------------

\* C35: when cancellation is requested while the files are enumerated, the
\* run returns once the enumeration is over: no scanner process is started,
\* nothing is published, the enrichment is not entered and no report is
\* opened.
C35_CancelWhileEnumerating ==
  cancelAt.phase = "enumerating" =>
    /\ pc \in {"enumerating", "returned"}
    /\ invocations = <<>>
    /\ procs = {}
    /\ dispatched = <<>>
    /\ published = NotPublished
    /\ reportItems = <<>>
    /\ report = <<"none">>

\* The run was cancelled while it enumerated files to scan and has returned.
C35_Witness ==
  /\ cancelAt.phase = "enumerating"
  /\ token
  /\ total > 0
  /\ pc = "returned"

\* ---------------------------------------------------------------------------
\* The increments of the progress notification
\* ---------------------------------------------------------------------------

RECURSIVE SumOf(_)
SumOf(seq) == IF seq = <<>> THEN 0 ELSE seq[1] + SumOf(Tail(seq))

\* C36: the increments reported after the batches of a run add up to at most
\* 100: each is the percentage the batch just completed has added, so that
\* their sum is the percentage of the files done.
C36_IncrementsSumTo100 ==
  /\ SumOf(increments) <= 100
  /\ Cancellable => SumOf(increments) = (IF total = 0 THEN 0 ELSE Pct(done, total))

\* ---------------------------------------------------------------------------
\* AuthManager: logout and getAccessToken on the secret storage. Every await
\* is a step; calls interleave at their awaits.
\* ---------------------------------------------------------------------------

\* getAccessToken calls in a run.
MaxGetters == 2

AuthVersions == {"client", "part001"}

IdleGetter == [pc |-> "idle", access |-> 0, refresh |-> 0, exp |-> 0]

\* login() has stored the three entries.
InitAuth ==
  /\ authVersion \in AuthVersions
  /\ secrets = [access |-> 1, refresh |-> 1, expires |-> 1]
  /\ getters = [g \in 1 .. MaxGetters |-> IdleGetter]
  /\ logoutCall = [pc |-> "idle", refresh |-> 0]
  /\ LimiterIdle /\ ScanIdle /\ EnrichIdle /\ PatchIdle /\ NormIdle /\ PostIdle
  /\ EnumIdle /\ LiveIdle /\ IgnoreIdle

AuthFrame ==
  UNCHANGED <<authVersion, limVars, scanVars, enrVars, patchVars, normVars,
              postVars, enumVars, liveVars, ignVars>>

\* getAccessToken() is called (whoami, an upload, isLoggedIn, ...).
GetCall(g) ==
  /\ getters[g].pc = "idle"
  /\ getters' = [getters EXCEPT ![g].pc = "rAccess"]
  /\ UNCHANGED <<secrets, logoutCall>>
  /\ AuthFrame

\* What getAccessToken does once it has read what it reads before the
\* refresh; expired: now >= exp - 30 (client.ts), now >= exp (part_001).
\*  client:  if (!access || !refresh || !expStr) return null;
\*           if (now >= exp - 30) refresh ... ; return access
\*  part001: if (access && now < exp) return access   (after access and exp)
\*           if (!refresh) return null; refresh ...   (after refresh)
AfterReads(st, expired) ==
  IF authVersion = "client"
  THEN IF st.access = 0 \/ st.refresh = 0 \/ st.exp = 0 THEN "done"
       ELSE IF expired THEN "refreshing" ELSE "done"
  ELSE IF st.pc = "rExp"
       THEN IF st.access # 0 /\ st.exp # 0 /\ ~expired THEN "done" ELSE "rRefresh"
       ELSE IF st.refresh = 0 THEN "done" ELSE "refreshing"

\* One `await this.ctx.secrets.get(...)` of getAccessToken returns.
\*  client:  access, refresh, expiry;   part001: access, expiry, refresh.
GetReads(g, expired) ==
  LET st == getters[g] IN
    /\ st.pc \in {"rAccess", "rRefresh", "rExp"}
    /\ getters' =
         [getters EXCEPT ![g] =
            CASE st.pc = "rAccess" ->
                   [st EXCEPT !.access = secrets.access,
                              !.pc = IF authVersion = "client" THEN "rRefresh"
                                     ELSE "rExp"]
              [] st.pc = "rRefresh" ->
                   LET rd == [st EXCEPT !.refresh = secrets.refresh] IN
                     [rd EXCEPT !.pc = IF authVersion = "client" THEN "rExp"
                                       ELSE AfterReads(rd, expired)]
              [] OTHER ->
                   LET rd == [st EXCEPT !.exp = secrets.expires] IN
                     [rd EXCEPT !.pc = AfterReads(rd, expired)]]
    /\ UNCHANGED <<secrets, logoutCall>>
    /\ AuthFrame

\* `await this.api.refresh(refresh)` returns or throws.
\*  client:  catch { await this.clear(); return null }
\*  part001: catch { await this.logout(); return null }
RefreshReturns(g, ok) ==
  /\ getters[g].pc = "refreshing"
  /\ getters' = [getters EXCEPT ![g].pc =
                   IF ok THEN "s1"
                   ELSE IF authVersion = "client" THEN "c1" ELSE "lGet"]
  /\ UNCHANGED <<secrets, logoutCall>>
  /\ AuthFrame

\* saveTokens: one `await this.ctx.secrets.store(...)` after the other.
GetStores(g) ==
  LET st == getters[g] IN
    /\ st.pc \in {"s1", "s2", "s3"}
    /\ secrets' = CASE st.pc = "s1" -> [secrets EXCEPT !.access = 2]
                    [] st.pc = "s2" -> [secrets EXCEPT !.refresh = 2]
                    [] OTHER -> [secrets EXCEPT !.expires = 2]
    /\ getters' = [getters EXCEPT ![g].pc =
                     CASE st.pc = "s1" -> "s2" [] st.pc = "s2" -> "s3"
                       [] OTHER -> "done"]
    /\ UNCHANGED logoutCall
    /\ AuthFrame

\* The steps of logout() and clear(), for the call st:
\*   const r = await secrets.get(REFRESH); if (r) await this.api.revoke(r)
\*   (an error of revoke is caught); await secrets.delete(...) three times;
\*   await executeCommand('setContext', ...).
ClearStep(st) ==
  CASE st.pc = "lGet" ->
         [st EXCEPT !.refresh = secrets.refresh,
                    !.pc = IF secrets.refresh # 0 THEN "lRevoke" ELSE "c1"]
    [] st.pc = "lRevoke" -> [st EXCEPT !.pc = "c1"]
    [] st.pc = "c1" -> [st EXCEPT !.pc = "c2"]
    [] st.pc = "c2" -> [st EXCEPT !.pc = "c3"]
    [] st.pc = "c3" -> [st EXCEPT !.pc = "ctx"]
    [] OTHER -> [st EXCEPT !.pc = "done"]

Cleared(st) ==
  CASE st.pc = "c1" -> [secrets EXCEPT !.access = 0]
    [] st.pc = "c2" -> [secrets EXCEPT !.refresh = 0]
    [] st.pc = "c3" -> [secrets EXCEPT !.expires = 0]
    [] OTHER -> secrets

\* The catch of getAccessToken goes on.
GetClears(g) ==
  /\ getters[g].pc \in {"lGet", "lRevoke", "c1", "c2", "c3", "ctx"}
  /\ secrets' = Cleared(getters[g])
  /\ getters' = [getters EXCEPT ![g] = ClearStep(@)]
  /\ UNCHANGED logoutCall
  /\ AuthFrame

\* The user logs out.
LogoutCalled ==
  /\ logoutCall.pc = "idle"
  /\ logoutCall' = [logoutCall EXCEPT !.pc = "lGet"]
  /\ UNCHANGED <<secrets, getters>>
  /\ AuthFrame

\* logout() goes on by one await.
LogoutStep ==
  /\ logoutCall.pc \in {"lGet", "lRevoke", "c1", "c2", "c3", "ctx"}
  /\ secrets' = Cleared(logoutCall)
  /\ logoutCall' = ClearStep(logoutCall)
  /\ UNCHANGED getters
  /\ AuthFrame

NextAuth ==
  \/ \E g \in 1 .. MaxGetters : GetCall(g)
  \/ \E g \in 1 .. MaxGetters, expired \in BOOLEAN : GetReads(g, expired)
  \/ \E g \in 1 .. MaxGetters, ok \in BOOLEAN : RefreshReturns(g, ok)
  \/ \E g \in 1 .. MaxGetters : GetStores(g)
  \/ \E g \in 1 .. MaxGetters : GetClears(g)
  \/ LogoutCalled
  \/ LogoutStep

SpecAuth == InitAuth /\ [][NextAuth]_vars

\* C37: once logout() has completed no access token, refresh token or expiry
\* is stored, whatever getAccessToken calls were under way while it ran.
C37_LoggedOutStoresNothing ==
  logoutCall.pc = "done" => secrets = NoSecrets

\* ---------------------------------------------------------------------------
\* The string the fingerprint is the digest of
\* ---------------------------------------------------------------------------

\* fpRaw of a finding of the later fromSemgrep.
FpRawOf(f) == f.fingerprint[2]

\* C38: two findings that differ in the file, the rule id, the start line or
\* the message are hashed from different strings, also when a path, a rule
\* id or a message holds a ':'.
C38_FingerprintInputInjective ==
  (normDone /\ normVersion = "late" /\ out1.ok /\ out2.ok
     /\ KeyDistance(out1, out2) >= 1) =>
    FpRawOf(out1) # FpRawOf(out2)

====
